---- MODULE Spec2Model ----
(***************************************************************************)
(* The multi-priority transmission pipeline of                             *)
(* io/zenoh-transport/src/common/pipeline.rs: producers serialize network  *)
(* and transport messages into per-priority batches (StageIn), a single    *)
(* consumer pulls the batches in strict priority order (StageOut) and      *)
(* gives them back through the refill ring.                                *)
(*                                                                         *)
(* A batch that sits in a refill ring is modelled by its count only: the   *)
(* producer clears every batch it pulls from the refill ring before use,   *)
(* so the bytes of a refilled batch are never read again.                  *)
(***************************************************************************)
EXTENDS Naturals, Integers, Sequences, FiniteSets

\* ---------------------------------------------------------------- bounds
\* Number of push calls (network and transport together) of one behaviour.
MaxMsgs == 3
\* Number of consecutive Backoff::next calls on the Backoff taken on its own.
MaxNext == 34

\* ------------------------------------------------- configuration, constants
\* config.batch.mtu: capacity of a batch, in bytes.
Mtu == 3
\* NanoSeconds::MAX. NanoSeconds is u32; the model checker's integers are
\* 32 bit signed, so the type is modelled 16 bit wide: the arithmetic of
\* Backoff::next (double, saturate at the maximum) is the same.
NanoMax == 65535
\* config.backoff, in nanoseconds (Backoff::tslot).
Tslot == 16384
\* BatchSize::MAX (u16)
BatchSizeMax == 65535
\* RBLEN = QueueSizeConf::MAX, the capacity of every ring. Its value is not
\* set in this source file; make() asserts that no queue size exceeds it,
\* and the queue sizes of the model are at most this.
RBLEN == 2
\* Serialized length of a frame header and of a fragment header.
FrameHdrLen == 1
FragHdrLen == 1
\* The most priority queues a pipeline of the model has; index 0 is the
\* highest priority.
MaxPrio == 2

Prios == 0 .. (MaxPrio - 1)
\* Producer threads, each holding a clone of TransmissionPipelineProducer.
Threads == {1, 2}
\* Owners of a mutex other than a producer thread.
Free == 0
DrainOwner == 98
DisableOwner == 99

Min(a, b) == IF a < b THEN a ELSE b

\* ---------------------------------------------------------------- inputs
\* A network message: priority, reliability, droppable, serialized length,
\* and the fragment (1, 2, ...) at which the codec refuses the fragment
\* encode; 0 when the codec never refuses. A message of one byte fits a
\* frame; one of Mtu bytes does not and is fragmented.
NetSizes == {1, Mtu}
NetMsgs ==
  [p : Prios, rel : BOOLEAN, drop : BOOLEAN, size : NetSizes, failAt : {0}]
  \cup [p : Prios, rel : {TRUE}, drop : {FALSE}, size : {Mtu}, failAt : {1, 2}]
\* A transport message, of the same record shape. Two of Mtu - 1 bytes do
\* not fit one batch.
TransSizes == {1, Mtu - 1}
TransMsgs ==
  [p : Prios, rel : {TRUE}, drop : {FALSE}, size : TransSizes, failAt : {0}]
NoMsg == [p |-> 0, rel |-> TRUE, drop |-> FALSE, size |-> 0, failAt |-> 0]

VARIABLES
  conf,         \* what make() was given: np queues of qs batches each
  refill,       \* [prio -> number of batches in the refill ring]
  ready,        \* [prio -> ready ring, a sequence of batches]
  current,      \* [prio -> current_slot: <<>> or <<batch>>]
  curLock,      \* [prio -> owner of the current_slot mutex]
  inLock,       \* [prio -> owner of the StageIn mutex]
  bytes,        \* [prio -> bytes_hint (AtomicU16)]
  backoffFlag,  \* [prio -> backoff_flag (AtomicBool)]
  nRef,         \* [prio -> messages in the refill signal channel, 0 or 1]
  refClosed,    \* the refill signal senders are dropped (consumer dropped)
  nOut,         \* messages in the ready signal channel, 0 or 1
  outClosed,    \* the ready signal senders are dropped (producers dropped)
  active,       \* the active flag
  chan,         \* [prio -> [reliable -> next SN of the tx channel]]
  th,           \* [thread -> state of its push call]
  cs,           \* the consumer: position in pull()/drain(), scan index, bo
  retry,        \* [prio -> Backoff::retry_time]
  lastBytes,    \* [prio -> Backoff::last_bytes]
  held,         \* [prio -> batches held by the consumer, not yet refilled]
  dis,          \* the disable() call: position and lock index
  nextId,       \* number of push calls started so far (message ids)
  fillCtr,      \* [prio -> number of batches that received a first write]
  visible,      \* ids of the messages wholly placed in ready ring or slot
  obs,          \* the batches pull() returned, in pull order
  bk            \* a Backoff on its own, NanoSeconds at its full width

vars ==
  << conf, refill, ready, current, curLock, inLock, bytes, backoffFlag, nRef,
     refClosed, nOut, active, chan, th, cs, retry, lastBytes, held, dis,
     nextId, fillCtr, visible, obs, bk, outClosed >>

\* ---------------------------------------------------------------- batches
\* WBatch: length, what was written (in order), and the rank of its first
\* write among the batches of its priority (0: never written).
EmptyBatch == [len |-> 0, items |-> << >>, ord |-> 0]

\* WBatch::is_empty
IsEmpty(b) == b.len = 0

\* A frame (k = "F"), a fragment (k = "G") or a transport message (k = "T").
\* rel is the reliability written in the header, ch the tx channel that
\* gave the SN.
Item(k, rel, ch, sn, more, id) ==
  [k |-> k, rel |-> rel, ch |-> ch, sn |-> sn, more |-> more, id |-> id]

\* The frame a batch is writing, if any: the reliability of the frame its
\* last item belongs to (k = "A": a message appended to that frame).
CurrentFrame(b) ==
  IF b.items # << >> /\ b.items[Len(b.items)].k \in {"F", "A"}
  THEN b.items[Len(b.items)].rel
  ELSE "none"

\* batch.encode(&msg): "ok", "newframe" (no current frame matches) or "err".
EncodeMsgResult(b, m) ==
  IF CurrentFrame(b) # (IF m.rel THEN "rel" ELSE "be") THEN "newframe"
  ELSE IF b.len + m.size <= Mtu THEN "ok"
  ELSE "err"

\* batch.encode((&msg, &frame)).is_ok()
FrameFits(b, m) == b.len + FrameHdrLen + m.size <= Mtu

\* batch.encode(&transport_msg).is_ok()
TransFits(b, m) == b.len + m.size <= Mtu

\* The batch after a write of n bytes described by item it.
Written(b, n, it, rank) ==
  [len |-> b.len + n,
   items |-> Append(b.items, it),
   ord |-> IF b.ord = 0 THEN rank ELSE b.ord]

\* Bytes of the scratch buffer a fragment takes on batch b.
FragRoom(b, rem) == Min(rem, Mtu - FragHdrLen - b.len)

\* ------------------------------------------------------------ tx channel
\* The SN generator of a tx channel is not part of this source file. Its
\* get() either reads the next SN and leaves the advance to the codec, which
\* then advances it when it writes a frame or fragment header, or gives the
\* next SN and advances at once; conf.getAdvances says which, and every
\* behaviour keeps to one of the two.
\* tch.sn.get() on a generator at c: the SN given, the generator after.
SnGet(c) == [value |-> c, next |-> IF conf.getAdvances THEN c + 1 ELSE c]
\* The generator after the codec wrote a header on a batch.
SnAfterHeader(c) == IF conf.getAdvances THEN c ELSE c + 1

\* FrameHeader.reliability (line 203).
FrameReliability(m) == "rel"

\* self.mutex.channel(msg.is_reliable())
Channel(m) == m.rel

\* --------------------------------------------- Backoff, NanoSeconds as u32
\* A NanoSeconds value at its width of 32 bits, written as its two halves
\* of 16 bits << high, low >>: the value is high * Half + low.
Half == 65536
U32Zero == << 0, 0 >>
U32Max == << Half - 1, Half - 1 >>

\* Mutation of CheckedMul2: the product wraps around at 32 bits.
WrappingMul2(v) ==
  << << (2 * v[1] + (2 * v[2]) \div Half) % Half, (2 * v[2]) % Half >> >>

\* self.retry_time.checked_mul(2) (line 370): << rt >> for Some(rt), << >>
\* for None, when the product does not fit 32 bits.
CheckedMul2(v) ==
  LET lo == 2 * v[2]
      hi == 2 * v[1] + lo \div Half
  IN IF hi >= Half THEN << >> ELSE << << hi, lo % Half >> >>

\* No Backoff has been made yet. k counts the next() calls since the last
\* reset(), and last is the last call made.
NoBackoff ==
  [made |-> FALSE, tslot |-> U32Zero, rt |-> U32Zero, flag |-> FALSE,
   k |-> 0, last |-> "-"]

\* Backoff::new (lines 355-363) with the flag make() gives it.
BackoffNew(ts) ==
  [made |-> TRUE, tslot |-> ts, rt |-> U32Zero, flag |-> FALSE, k |-> 0,
   last |-> "new"]

\* Backoff::next (lines 365-383) on the 32 bit value.
BackoffNextWide(b) ==
  LET doubled == CheckedMul2(b.rt)
  IN IF b.rt = U32Zero
     THEN [b EXCEPT !.rt = b.tslot, !.flag = TRUE, !.k = @ + 1,
                    !.last = "next"]
     ELSE [b EXCEPT !.rt = IF doubled # << >> THEN doubled[1] ELSE U32Max,
                    !.k = @ + 1, !.last = "next"]

\* Backoff::reset (lines 385-388).
BackoffReset(b) ==
  [b EXCEPT !.rt = U32Zero, !.flag = FALSE, !.k = 0, !.last = "reset"]

\* --------------------------------------------------------------- threads
IdleThread ==
  [ph |-> "idle", st |-> "-", op |-> "none", m |-> NoMsg, id |-> 0,
   sn0 |-> 0, fsn |-> 0, rem |-> 0, frag |-> 0,
   nbytes |-> 0, snStart |-> 0, ret |-> "none", how |-> "-"]

\* The consumer outside pull() and drain(). About its last pull(): res is
\* "some" or "none", rp the priority of the batch returned and from where
\* it was taken, sr the priorities whose ready ring held a batch when the
\* call began, seen those whose ready ring held a batch when the scan
\* examined them, off whether the active flag was false when the call began.
\* out is what its last drain() returned, and snap the written batches,
\* as << priority, rank >>, that sat in a ready ring or a current_slot when
\* that drain() was called.
IdleConsumer ==
  [ph |-> "idle", i |-> 0, bo |-> NanoMax, res |-> "-", rp |-> 0,
   sr |-> {}, seen |-> {}, from |-> "-", off |-> FALSE, out |-> << >>,
   snap |-> {}]

\* TransmissionPipeline::make (lines 495-574) for np priorities and a queue
\* size of qs: every refill ring is filled with qs empty batches.
Make(np, qs) ==
  /\ conf \in {[np |-> np, qs |-> qs, getAdvances |-> a] : a \in BOOLEAN}
  /\ refill = [p \in Prios |-> IF p < np THEN qs ELSE 0]
  /\ ready = [p \in Prios |-> << >>]
  /\ current = [p \in Prios |-> << >>]
  /\ curLock = [p \in Prios |-> Free]
  /\ inLock = [p \in Prios |-> Free]
  /\ bytes = [p \in Prios |-> 0]
  /\ backoffFlag = [p \in Prios |-> FALSE]
  /\ nRef = [p \in Prios |-> 0]
  /\ refClosed = FALSE
  /\ nOut = 0
  /\ outClosed = FALSE
  /\ active = TRUE
  /\ chan = [p \in Prios |-> [r \in BOOLEAN |-> 0]]
  /\ th = [t \in Threads |-> IdleThread]
  /\ cs = IdleConsumer
  /\ retry = [p \in Prios |-> 0]
  /\ lastBytes = [p \in Prios |-> 0]
  /\ held = [p \in Prios |-> 0]
  /\ dis = [ph |-> "idle", i |-> 0]
  /\ nextId = 0
  /\ fillCtr = [p \in Prios |-> 0]
  /\ visible = {}
  /\ obs = << >>
  /\ bk = NoBackoff

\* The main specification: one priority queue of two batches.
Init == Make(1, 2)

\* ------------------------------------------------------- shared operators
\* RingBufferWriter::push: the batch is appended unless the ring is full
\* (a full ring gives the batch back, and move_batch ignores the result).
RingPush(ring, b) == IF Len(ring) < RBLEN THEN Append(ring, b) ELSE ring

\* Sender::try_send(()) on a bounded(1) channel holding n messages.
TrySend(n) == IF n < 1 THEN n + 1 ELSE n

\* Ids of the messages a batch completes: frames, transport messages and
\* final fragments.
CompleteIds(b) ==
  {b.items[k].id : k \in {j \in 1 .. Len(b.items) :
                            b.items[j].k # "G" \/ ~b.items[j].more}}

\* StageInOut::move_batch (lines 90-95).
MoveBatch(p, b) ==
  /\ ready' = [ready EXCEPT ![p] = RingPush(@, b)]
  /\ bytes' = [bytes EXCEPT ![p] = 0]
  /\ nOut' = TrySend(nOut)
  /\ visible' = visible \cup CompleteIds(b)

\* Mutation of SnRestore: a restore that leaves the generator as it is.
SnNotRestored(cur, sn) == cur

\* tch.sn.set(sn): the value the generator holds after a restore.
SnRestore(cur, sn) == sn

\* The thread record after its call returned val on path how; the kind of
\* call, the message id, the call site and the result stay readable.
Returned(s, val, how) ==
  [IdleThread EXCEPT !.op = s.op, !.id = s.id, !.st = s.st, !.ret = val,
                     !.how = how]

\* Dropping the guards at a return: the StageIn mutex and, when held,
\* the current_slot mutex.
ReleaseAll(t, p) ==
  /\ inLock' = [inLock EXCEPT ![p] = Free]
  /\ curLock' = [curLock EXCEPT ![p] = IF @ = t THEN Free ELSE @]

consVars == << conf, bk, outClosed, cs, retry, lastBytes, held, obs, backoffFlag >>

\* ------------------------------------- TransmissionPipelineProducer (push)
\* zlock!(self.stage_in[idx]) (lines 602, 615) for thread t holding message
\* m: the thread record once it owns the StageIn mutex. The inner call
\* begins here; snStart is the channel's SN then.
Locked(s) ==
  [s EXCEPT !.ph = "get", !.snStart = chan[s.m.p][Channel(s.m)]]

\* Mutation of MutexFree: the StageIn mutex excludes nobody.
MutexNotExclusive(owner) == TRUE

\* zlock!(self.stage_in[idx]) (lines 602, 615): whether a mutex owned by
\* owner can be taken.
MutexFree(owner) == owner = Free

\* push_network_message, lines 587-603: priority and deadline are computed,
\* then the StageIn mutex is requested; the thread has it at once when it
\* is free and waits for it otherwise.
PushNetStart(t, m) ==
  LET s == [IdleThread EXCEPT !.ph = "lockin", !.st = "n1", !.op = "net",
                              !.m = m, !.id = nextId + 1]
  IN /\ th[t].ph = "idle"
     /\ nextId < MaxMsgs
     /\ m.p < conf.np
     /\ nextId' = nextId + 1
     /\ IF MutexFree(inLock[m.p])
        THEN /\ th' = [th EXCEPT ![t] = Locked(s)]
             /\ inLock' = [inLock EXCEPT ![m.p] = t]
        ELSE /\ th' = [th EXCEPT ![t] = s]
             /\ UNCHANGED inLock
     /\ UNCHANGED << refill, ready, current, curLock, bytes, nRef, refClosed,
                     nOut, active, chan, dis, fillCtr, visible >>
     /\ UNCHANGED consVars

\* push_transport_message, lines 607-616.
PushTransStart(t, m) ==
  LET s == [IdleThread EXCEPT !.ph = "lockin", !.st = "t1", !.op = "trans",
                              !.m = m, !.id = nextId + 1]
  IN /\ th[t].ph = "idle"
     /\ nextId < MaxMsgs
     /\ m.p < conf.np
     /\ nextId' = nextId + 1
     /\ IF MutexFree(inLock[m.p])
        THEN /\ th' = [th EXCEPT ![t] = Locked(s)]
             /\ inLock' = [inLock EXCEPT ![m.p] = t]
        ELSE /\ th' = [th EXCEPT ![t] = s]
             /\ UNCHANGED inLock
     /\ UNCHANGED << refill, ready, current, curLock, bytes, nRef, refClosed,
                     nOut, active, chan, dis, fillCtr, visible >>
     /\ UNCHANGED consVars

\* A thread blocked in zlock!(self.stage_in[idx]) gets the mutex.
LockStageIn(t) ==
  LET s == th[t]
      p == s.m.p
  IN /\ s.ph = "lockin"
     /\ MutexFree(inLock[p])
     /\ inLock' = [inLock EXCEPT ![p] = t]
     /\ th' = [th EXCEPT ![t] = Locked(s)]
     /\ UNCHANGED << refill, ready, current, curLock, bytes, nRef, refClosed,
                     nOut, active, chan, dis, nextId, fillCtr, visible >>
     /\ UNCHANGED consVars

\* zgetbatch_rets (lines 140-175, 286-303) with the current_slot mutex held:
\* whether the slot or the refill ring gives a batch, the batch it gives
\* (the slot's, else a cleared one of the refill ring), and the refill ring
\* after that.
CanGet(t) ==
  LET s == th[t]
  IN /\ s.ph = "get"
     /\ curLock[s.m.p] \in {Free, t}
HasBatch(p) == current[p] # << >> \/ refill[p] > 0
Taken(p) == IF current[p] # << >> THEN current[p][1] ELSE EmptyBatch

\* Mutation of RefillAfterTake: the batch pulled stays in the refill ring.
RefillNotTaken(p) == refill

\* The refill ring after self.s_ref.pull() gave the batch (lines 144, 290).
RefillAfterTake(p) ==
  [refill EXCEPT ![p] = IF current[p] = << >> THEN @ - 1 ELSE @]
SlotTaken(p) == [current EXCEPT ![p] = << >>]

\* Mutation of GuardDropped: the guard is kept through the wait.
GuardKept(t) == t

\* drop(c_guard) (lines 149, 294): the owner of the current_slot mutex once
\* thread t has dropped its guard.
GuardDropped(t) == Free

\* Lines 148-149, 294-295: no batch; the guard is dropped and the thread
\* waits on the refill signal.
GetBatchWait(t) ==
  LET s == th[t]
      p == s.m.p
  IN /\ CanGet(t)
     /\ ~HasBatch(p)
     /\ th' = [th EXCEPT ![t].ph = "wait"]
     /\ curLock' = [curLock EXCEPT ![p] = GuardDropped(t)]
     /\ UNCHANGED << refill, current, ready, inLock, bytes, nRef, refClosed,
                     nOut, active, chan, dis, nextId, fillCtr, visible >>
     /\ UNCHANGED consVars

\* Mutation of HasDeadline: the deadline is observed for every message.
DeadlineForAll(s) == s.op = "net" /\ s.st \in {"n1", "n2"}

\* Mutation of HasDeadline: the deadline is observed in the fragmentation
\* loop as well.
DeadlineInFragments(s) == s.op = "net" /\ s.m.drop

\* Whether the wait of this call site observes the drop deadline
\* (`Some(deadline) if !$fragment`, line 151).
HasDeadline(s) == s.op = "net" /\ s.m.drop /\ s.st \in {"n1", "n2"}

\* self.s_ref.wait() / wait_deadline(): a message in the refill signal
\* channel is received and the loop takes the mutex again (line 171).
WaitWake(t) ==
  LET s == th[t]
      p == s.m.p
  IN /\ s.ph = "wait"
     /\ nRef[p] = 1
     /\ nRef' = [nRef EXCEPT ![p] = 0]
     /\ th' = [th EXCEPT ![t].ph = "get"]
     /\ UNCHANGED << refill, ready, current, curLock, inLock, bytes,
                     refClosed, nOut, active, chan, dis, nextId, fillCtr,
                     visible >>
     /\ UNCHANGED consVars

\* $restore_sn of the call site: nothing at the first one (line 188) and in
\* push_transport_message, tch.sn.set(sn) at the others (lines 218, 249).
ChanAfterAbort(s) ==
  IF s.st \in {"n2", "nf"}
  THEN [chan EXCEPT ![s.m.p][Channel(s.m)] = SnRestore(@, s.sn0)]
  ELSE chan

\* Mutation of WaitEnds: a closed signal channel does not end the wait.
WaitEndsOnDeadline(s, how) == how = "timeout" /\ HasDeadline(s) /\ ~refClosed

\* Whether a wait on the refill signal can end without a message: the
\* sender is dropped ("closed"), or the deadline of a droppable message
\* passes ("timeout").
WaitEnds(s, how) ==
  \/ how = "closed" /\ refClosed
  \/ how = "timeout" /\ HasDeadline(s) /\ ~refClosed

\* The wait fails (lines 154-158, 163-167, 296-297) with the signal channel
\* empty: the SN is restored and the call returns false.
WaitFail(t, how) ==
  LET s == th[t]
      p == s.m.p
  IN /\ s.ph = "wait"
     /\ nRef[p] = 0
     /\ WaitEnds(s, how)
     /\ chan' = ChanAfterAbort(s)
     /\ th' = [th EXCEPT ![t] = Returned(s, "false", how)]
     /\ ReleaseAll(t, p)
     /\ UNCHANGED << refill, ready, current, bytes, nRef, refClosed, nOut,
                     active, dis, nextId, fillCtr, visible >>
     /\ UNCHANGED consVars

\* ------------------------------------------- StageIn::push_network_message
\* zretok (lines 179-185): move the batch out and return true.
NetRetOk(t, b, how) ==
  LET s == th[t]
      p == s.m.p
  IN /\ MoveBatch(p, b)
     /\ th' = [th EXCEPT ![t] = Returned(s, "true", how)]
     /\ ReleaseAll(t, p)
     /\ current' = SlotTaken(p)

\* The rank a batch gets at its first write.
Rank(p) == fillCtr[p] + 1
Ranked(p, b) == [fillCtr EXCEPT ![p] = IF b.ord = 0 THEN Rank(p) ELSE @]

\* Lines 221-245: the serialization on a fully empty batch b; when it fails
\* the batch goes back to current_slot and the fragmentation begins with
\* fragment.sn = sn and the whole message in the scratch buffer. c is what
\* the SN generator holds when the serialization is attempted.
SecondSerialization(t, b, sn, c) ==
  LET s == th[t]
      p == s.m.p
      m == s.m
      it == Item("F", FrameReliability(m), Channel(m), sn, FALSE, s.id)
  IN IF FrameFits(b, m)
     THEN /\ NetRetOk(t, Written(b, FrameHdrLen + m.size, it, Rank(p)), "frame")
          /\ fillCtr' = Ranked(p, b)
          /\ chan' = [chan EXCEPT ![p][Channel(m)] = SnAfterHeader(c)]
     ELSE /\ current' = [current EXCEPT ![p] = << b >>]
          /\ chan' = [chan EXCEPT ![p][Channel(m)] = c]
          /\ th' = [th EXCEPT ![t].ph = "get", ![t].st = "nf", ![t].sn0 = sn,
                              ![t].fsn = sn, ![t].rem = m.size]
          /\ curLock' = [curLock EXCEPT ![p] = t]
          /\ UNCHANGED << ready, bytes, nOut, visible, inLock, fillCtr >>

\* Lines 188-229: the first zgetbatch_rets gives a batch; the message is
\* serialized on it, alone or with a new frame.
NetEncode1(t) ==
  LET s == th[t]
      p == s.m.p
      m == s.m
      b == Taken(p)
      e == EncodeMsgResult(b, m)
      g == SnGet(chan[p][Channel(m)])
      sn == g.value
      it == Item("F", FrameReliability(m), Channel(m), sn, FALSE, s.id)
      last == b.items[Len(b.items)]
  IN /\ CanGet(t)
     /\ s.st = "n1"
     /\ HasBatch(p)
     /\ refill' = RefillAfterTake(p)
     /\ IF e = "ok"
        THEN \* line 191: the message joins the frame the batch is writing
             /\ NetRetOk(t, Written(b, m.size,
                              Item("A", last.rel, last.ch, last.sn, FALSE, s.id),
                              Rank(p)), "append")
             /\ UNCHANGED << chan, fillCtr >>
        ELSE IF e = "newframe" /\ FrameFits(b, m)
        THEN \* lines 199-213
             /\ chan' = [chan EXCEPT ![p][Channel(m)] = SnAfterHeader(g.next)]
             /\ NetRetOk(t, Written(b, FrameHdrLen + m.size, it, Rank(p)),
                         "frame")
             /\ fillCtr' = Ranked(p, b)
        ELSE IF ~IsEmpty(b)
        THEN \* lines 199-219: move out the batch, get another
             /\ chan' = [chan EXCEPT ![p][Channel(m)] = g.next]
             /\ MoveBatch(p, b)
             /\ current' = SlotTaken(p)
             /\ curLock' = [curLock EXCEPT ![p] = t]
             /\ th' = [th EXCEPT ![t].st = "n2", ![t].sn0 = sn]
             /\ UNCHANGED << inLock, fillCtr >>
        ELSE \* lines 199, 221-245
             SecondSerialization(t, b, sn, g.next)
     /\ UNCHANGED << nRef, refClosed, active, dis, nextId >>
     /\ UNCHANGED consVars

\* Lines 218-245: the second zgetbatch_rets gives a batch.
NetEncode2(t) ==
  LET s == th[t]
      p == s.m.p
  IN /\ CanGet(t)
     /\ s.st = "n2"
     /\ HasBatch(p)
     /\ refill' = RefillAfterTake(p)
     /\ SecondSerialization(t, Taken(p), s.sn0, chan[p][Channel(s.m)])
     /\ UNCHANGED << nRef, refClosed, active, dis, nextId >>
     /\ UNCHANGED consVars

\* The result of batch.encode((&mut reader, &mut fragment)) at line 252 for
\* fragment number k of message m: whether it is Err.
FragmentFails(m, k) == m.failAt = k

\* One iteration of the fragmentation loop, lines 246-271, when
\* zgetbatch_rets gives a batch.
FragEncode(t) ==
  LET s == th[t]
      p == s.m.p
      m == s.m
      b == Taken(p)
      k == s.frag + 1
      n == FragRoom(b, s.rem)
      it == Item("G", FrameReliability(m), Channel(m), s.fsn, s.rem > n, s.id)
      g == SnGet(SnAfterHeader(chan[p][Channel(m)]))
  IN /\ CanGet(t)
     /\ s.st = "nf"
     /\ HasBatch(p)
     /\ refill' = RefillAfterTake(p)
     /\ IF FragmentFails(m, k)
        THEN \* lines 259-269: restore the SN, reinsert the batch, warn,
             \* leave the loop and return true (line 276)
             /\ chan' = [chan EXCEPT ![p][Channel(m)] = SnRestore(@, s.sn0)]
             /\ current' = [current EXCEPT ![p] = << b >>]
             /\ th' = [th EXCEPT ![t] = Returned(s, "true", "fragfail")]
             /\ ReleaseAll(t, p)
             /\ UNCHANGED << ready, bytes, nOut, visible, fillCtr >>
        ELSE \* lines 253-258
             /\ chan' = [chan EXCEPT ![p][Channel(m)] = g.next]
             /\ MoveBatch(p, Written(b, FragHdrLen + n, it, Rank(p)))
             /\ fillCtr' = Ranked(p, b)
             /\ current' = SlotTaken(p)
             /\ IF s.rem > n
                THEN /\ th' = [th EXCEPT ![t].fsn = g.value,
                                    ![t].rem = s.rem - n, ![t].frag = k]
                     /\ curLock' = [curLock EXCEPT ![p] = t]
                     /\ UNCHANGED inLock
                ELSE /\ th' = [th EXCEPT ![t] = Returned(s, "true", "fragments")]
                     /\ ReleaseAll(t, p)
     /\ UNCHANGED << nRef, refClosed, active, dis, nextId >>
     /\ UNCHANGED consVars

\* ----------------------------------------- StageIn::push_transport_message
\* The transport message of thread record s written on batch b at priority p.
TransWritten(s, b) ==
  Written(b, s.m.size, Item("T", "none", FALSE, 0, FALSE, s.id), Rank(s.m.p))

\* Lines 318-329: the first zgetbatch_rets gives a batch.
TransEncode1(t) ==
  LET s == th[t]
      p == s.m.p
      m == s.m
      b == Taken(p)
      w == TransWritten(s, b)
  IN /\ CanGet(t)
     /\ s.st = "t1"
     /\ HasBatch(p)
     /\ refill' = RefillAfterTake(p)
     /\ IF TransFits(b, m)
        THEN \* zretok, lines 309-311: store the batch, drop the guard
             /\ current' = [current EXCEPT ![p] = << w >>]
             /\ curLock' = [curLock EXCEPT ![p] = Free]
             /\ th' = [th EXCEPT ![t].ph = "notify", ![t].nbytes = w.len]
             /\ fillCtr' = Ranked(p, b)
             /\ visible' = visible \cup {s.id}
             /\ UNCHANGED << ready, bytes, nOut, inLock >>
        ELSE IF ~IsEmpty(b)
        THEN \* lines 324-327
             /\ MoveBatch(p, b)
             /\ current' = SlotTaken(p)
             /\ curLock' = [curLock EXCEPT ![p] = t]
             /\ th' = [th EXCEPT ![t].st = "t2"]
             /\ UNCHANGED << inLock, fillCtr >>
        ELSE \* line 333 on the same empty batch: the encode fails again,
             \* the call returns false and the local batch is dropped
             /\ th' = [th EXCEPT ![t] = Returned(s, "false", "toolarge")]
             /\ ReleaseAll(t, p)
             /\ current' = SlotTaken(p)
             /\ UNCHANGED << ready, bytes, nOut, visible, fillCtr >>
     /\ UNCHANGED << nRef, refClosed, active, chan, dis, nextId >>
     /\ UNCHANGED consVars

\* The current_slot after line 333: the function returns the result of the
\* encode on batch w and its local `batch` goes out of scope; nothing is
\* stored in the slot, which the take left empty.
SlotAfterRetry(w) == << >>

\* Line 333: the second zgetbatch_rets gives a batch.
TransEncode2(t) ==
  LET s == th[t]
      p == s.m.p
      m == s.m
      b == Taken(p)
      w == TransWritten(s, b)
  IN /\ CanGet(t)
     /\ s.st = "t2"
     /\ HasBatch(p)
     /\ refill' = RefillAfterTake(p)
     /\ current' = [current EXCEPT ![p] = SlotAfterRetry(w)]
     /\ visible' = IF current'[p] = << w >> THEN visible \cup {s.id}
                   ELSE visible
     /\ fillCtr' = IF TransFits(b, m) THEN Ranked(p, b) ELSE fillCtr
     /\ th' = [th EXCEPT ![t] =
                 Returned(s, IF TransFits(b, m) THEN "true" ELSE "false",
                          "retry")]
     /\ ReleaseAll(t, p)
     /\ UNCHANGED << ready, bytes, nOut >>
     /\ UNCHANGED << nRef, refClosed, active, chan, dis, nextId >>
     /\ UNCHANGED consVars

\* StageInOut::notify (lines 83-88): the bytes value stored and the signal.
NotifyBytes(old, n) == n

\* Mutation of NotifySignal: the signal is attempted whatever the flag says.
NotifyAlways(flag, n) == TrySend(n)

NotifySignal(flag, n) == IF ~flag THEN TrySend(n) ELSE n

\* zretok, lines 312-313: notify(bytes) after the guard is dropped.
TransNotify(t) ==
  LET s == th[t]
      p == s.m.p
  IN /\ s.ph = "notify"
     /\ bytes' = [bytes EXCEPT ![p] = NotifyBytes(@, s.nbytes)]
     /\ nOut' = NotifySignal(backoffFlag[p], nOut)
     /\ th' = [th EXCEPT ![t] = Returned(s, "true", "stored")]
     /\ ReleaseAll(t, p)
     /\ UNCHANGED << refill, ready, current, nRef, refClosed, active, chan,
                     dis, nextId, fillCtr, visible >>
     /\ UNCHANGED consVars

\* --------------------------------------------------------------- Backoff
\* Backoff::next (lines 365-383): the new retry_time (u32, checked_mul).
BackoffNext(rt) ==
  IF rt = 0 THEN Tslot
  ELSE IF rt * 2 <= NanoMax THEN rt * 2
  ELSE NanoMax

\* ------------------------------------------ TransmissionPipelineConsumer
prodVars_noRef == << conf, bk, outClosed, inLock, refClosed, active, chan, th,
                     dis, nextId, fillCtr, visible >>
prodVars == << conf, bk, outClosed, inLock, nRef, refClosed, active, chan, th, dis, nextId,
               fillCtr, visible >>

\* pull(), lines 643-646: reset every backoff.
PullStart ==
  /\ cs.ph = "idle"
  /\ cs' = [IdleConsumer EXCEPT !.ph = "head",
                                 !.sr = {p \in Prios : ready[p] # << >>},
                                 !.off = ~active]
  /\ retry' = [p \in Prios |-> 0]
  /\ backoffFlag' = [p \in Prios |-> FALSE]
  /\ UNCHANGED << refill, ready, current, curLock, bytes, nOut, lastBytes,
                  held, obs >>
  /\ UNCHANGED prodVars

\* Mutation of LoopTest: the loop body runs whatever the flag says.
LoopTestSkipped(a) == TRUE

\* `while self.active.load(Ordering::Relaxed)` (line 648) on a flag of a.
LoopTest(a) == a

\* The loop test of line 648 and the start of a scan (line 650).
PullHead ==
  /\ cs.ph = "head"
  /\ cs' = IF LoopTest(active)
           THEN [cs EXCEPT !.ph = "ring", !.i = 0, !.bo = NanoMax, !.seen = {}]
           ELSE [IdleConsumer EXCEPT !.res = "none", !.sr = cs.sr,
                                     !.off = cs.off]
  /\ UNCHANGED << refill, ready, current, curLock, bytes, nOut, retry,
                  lastBytes, held, obs, backoffFlag >>
  /\ UNCHANGED prodVars

\* Mutation of ScanPrio: the scan begins at the lowest priority.
ScanReversed(i) == conf.np - 1 - i

\* The priority the scan examines at its step i (line 651).
ScanPrio(i) == i

\* {p} when the ready ring of p holds a batch, else {}.
ReadyNow(p) == IF ready[p] # << >> THEN {p} ELSE {}

\* pull() returns Some((batch, prio)) (line 654).
PullReturn(p, b, from) ==
  /\ cs' = [IdleConsumer EXCEPT !.res = "some", !.rp = p, !.sr = cs.sr,
                                 !.seen = cs.seen \cup ReadyNow(p),
                                 !.from = from, !.off = cs.off]
  /\ held' = [held EXCEPT ![p] = @ + 1]
  /\ obs' = Append(obs, [p |-> p, ord |-> b.ord, items |-> b.items])

\* Mutation of ScanOn: a scan that found nothing ends the call with None.
ScanGivesUp(bo) ==
  IF cs.i + 1 < conf.np
  THEN [cs EXCEPT !.ph = "ring", !.i = cs.i + 1, !.bo = bo]
  ELSE [IdleConsumer EXCEPT !.res = "none", !.sr = cs.sr, !.off = cs.off]

\* The scan goes on to the next priority, or to the wait after the last.
ScanOn(bo) ==
  IF cs.i + 1 < conf.np
  THEN [cs EXCEPT !.ph = "ring", !.i = cs.i + 1, !.bo = bo]
  ELSE [cs EXCEPT !.ph = "wait", !.i = 0, !.bo = bo]

\* StageOutIn::try_pull, lines 401-405: the lock-free pull of the ready ring.
TryPullRing ==
  LET p == ScanPrio(cs.i)
  IN /\ cs.ph = "ring"
     /\ IF ready[p] # << >>
        THEN /\ PullReturn(p, Head(ready[p]), "ring")
             /\ ready' = [ready EXCEPT ![p] = Tail(@)]
        ELSE /\ cs' = [cs EXCEPT !.ph = "deep", !.seen = @ \cup ReadyNow(p)]
             /\ UNCHANGED << ready, held, obs >>
     /\ UNCHANGED << refill, current, curLock, bytes, nOut, retry, lastBytes,
                     backoffFlag >>
     /\ UNCHANGED prodVars

\* Mutation of RecheckRing: the deep pull goes to the slot at once.
NoRecheck(ring) == FALSE

\* Whether try_pull_deep looks at the ready ring again once it holds the
\* current_slot mutex (lines 416-420).
RecheckRing(ring) == ring # << >>

\* Mutation of NoNewBytes: the slot never counts as unchanged.
AlwaysNewBytes(new, old) == FALSE

\* `new_bytes == old_bytes` (line 413).
NoNewBytes(new, old) == new = old

\* Mutation of TryLock: the lock is taken whoever owns it.
TryLockAlways(owner) == TRUE

\* self.current.try_lock() (line 415) on a mutex owned by owner.
TryLock(owner) == owner = Free

\* StageOutIn::try_pull_deep, lines 408-438.
TryPullDeep ==
  LET p == ScanPrio(cs.i)
      newBytes == bytes[p]
      oldBytes == lastBytes[p]
  IN /\ cs.ph = "deep"
     /\ lastBytes' = [lastBytes EXCEPT ![p] = newBytes]
     /\ IF NoNewBytes(newBytes, oldBytes) /\ TryLock(curLock[p])
        THEN \* try_lock succeeded
             /\ UNCHANGED << retry, backoffFlag >>
             /\ IF RecheckRing(ready[p])
                THEN /\ PullReturn(p, Head(ready[p]), "deepring")
                     /\ ready' = [ready EXCEPT ![p] = Tail(@)]
                     /\ UNCHANGED current
                ELSE IF current[p] # << >>
                THEN /\ PullReturn(p, current[p][1], "slot")
                     /\ current' = [current EXCEPT ![p] = << >>]
                     /\ UNCHANGED ready
                ELSE \* Pull::None
                     /\ cs' = ScanOn(cs.bo)
                     /\ UNCHANGED << ready, current, held, obs >>
        ELSE \* lines 435-437
             /\ retry' = [retry EXCEPT ![p] = BackoffNext(@)]
             /\ backoffFlag' = [backoffFlag EXCEPT ![p] =
                                  IF retry[p] = 0 THEN TRUE ELSE @]
             /\ cs' = ScanOn(Min(cs.bo, retry'[p]))
             /\ UNCHANGED << ready, current, held, obs >>
     /\ UNCHANGED << refill, curLock, bytes, nOut >>
     /\ UNCHANGED prodVars

\* Mutation of TimedWait: the wait on the ready signal has no timeout.
UntimedWait(bo) == FALSE

\* tokio::time::timeout(Duration::from_nanos(bo as u64), ..) (line 673):
\* whether the wait ends when no message comes; bo is at most NanoMax.
TimedWait(bo) == bo <= NanoMax

\* Lines 669-687: after the yield, the timed wait on the ready signal ends
\* with a message ("recv"), with the timeout of bo nanoseconds ("timeout"),
\* or, the channel being empty and its senders dropped, with a channel
\* error ("closed"), which leaves the loop and returns None.
PullWait(how) ==
  /\ cs.ph = "wait"
  /\ \/ /\ how = "recv" /\ nOut = 1 /\ nOut' = 0
        /\ cs' = [cs EXCEPT !.ph = "head"]
     \/ /\ how = "timeout" /\ TimedWait(cs.bo) /\ nOut = 0 /\ ~outClosed
        /\ UNCHANGED nOut
        /\ cs' = [cs EXCEPT !.ph = "head"]
     \/ /\ how = "closed" /\ nOut = 0 /\ outClosed
        /\ UNCHANGED nOut
        /\ cs' = [IdleConsumer EXCEPT !.res = "none", !.sr = cs.sr,
                                      !.off = cs.off]
  /\ UNCHANGED << refill, ready, current, curLock, bytes, retry, lastBytes,
                  held, obs, backoffFlag >>
  /\ UNCHANGED prodVars

\* Mutation of RefillSignal: the refill sends no signal.
NoRefillSignal(n) == n

\* StageOutRefill::refill (lines 447-450): the signal after the ring push.
RefillSignal(n) == TrySend(n)

\* refill(batch, priority), lines 692-694, of a batch the consumer holds.
Refill(p) ==
  /\ cs.ph = "idle"
  /\ held[p] > 0
  /\ refill[p] < RBLEN
  /\ held' = [held EXCEPT ![p] = @ - 1]
  /\ refill' = [refill EXCEPT ![p] = @ + 1]
  /\ nRef' = [nRef EXCEPT ![p] = RefillSignal(@)]
  /\ UNCHANGED << conf, bk, outClosed, ready, current, curLock, inLock, bytes,
                  backoffFlag,
                  refClosed, nOut, active, chan, th, cs, retry, lastBytes,
                  dis, nextId, fillCtr, visible, obs >>

\* Mutation of RefillOrder: the signal is sent before the batch is pushed.
RefillOrderSwapped == << "signal", "push" >>

\* StageOutRefill::refill, lines 448-449, as the two steps other threads
\* can come between: the push on the refill ring, then the try_send.
RefillOrder == << "push", "signal" >>

\* One of the two steps of refill on priority p.
RefillDo(p, what) ==
  IF what = "push"
  THEN /\ refill' = [refill EXCEPT ![p] = @ + 1]
       /\ UNCHANGED nRef
  ELSE /\ nRef' = [nRef EXCEPT ![p] = RefillSignal(@)]
       /\ UNCHANGED refill

\* refill(batch, priority) of a batch the consumer holds: its first step.
RefillFirst(p) ==
  /\ cs.ph = "idle"
  /\ held[p] > 0
  /\ refill[p] < RBLEN
  /\ held' = [held EXCEPT ![p] = @ - 1]
  /\ cs' = [cs EXCEPT !.ph = "refill", !.i = p]
  /\ RefillDo(p, RefillOrder[1])
  /\ UNCHANGED << ready, current, curLock, bytes, nOut, retry, lastBytes,
                  obs, backoffFlag >>
  /\ UNCHANGED prodVars_noRef

\* The second step of refill, and its return.
RefillSecond ==
  /\ cs.ph = "refill"
  /\ cs' = [cs EXCEPT !.ph = "idle", !.i = 0]
  /\ RefillDo(cs.i, RefillOrder[2])
  /\ UNCHANGED << ready, current, curLock, bytes, nOut, retry, lastBytes,
                  held, obs, backoffFlag >>
  /\ UNCHANGED prodVars_noRef

\* The batches in the ready ring and the current_slot of priority p, and
\* the written ones of all priorities as << priority, rank >>.
BatchesAt(p) ==
  {ready[p][k] : k \in 1 .. Len(ready[p])}
    \cup {current[p][k] : k \in 1 .. Len(current[p])}
Placed ==
  UNION {{<< p, b.ord >> : b \in {x \in BatchesAt(p) : x.ord > 0}} : p \in Prios}

\* drain(), lines 702-708: the current_slot mutexes are taken in index order.
DrainStart ==
  /\ cs.ph = "idle"
  /\ cs' = [IdleConsumer EXCEPT !.ph = "drain", !.snap = Placed]
  /\ UNCHANGED << refill, ready, current, curLock, bytes, nOut, retry,
                  lastBytes, held, obs, backoffFlag >>
  /\ UNCHANGED prodVars

DrainLock ==
  /\ cs.ph = "drain"
  /\ cs.i < conf.np
  /\ curLock[cs.i] = Free
  /\ curLock' = [curLock EXCEPT ![cs.i] = DrainOwner]
  /\ cs' = [cs EXCEPT !.i = cs.i + 1]
  /\ UNCHANGED << refill, ready, current, bytes, nOut, retry, lastBytes,
                  held, obs, backoffFlag >>
  /\ UNCHANGED prodVars

\* Mutation of Drained: the current batch is not taken.
DrainedRingOnly(p) == ready[p]

\* StageOut::drain (lines 469-480) of one priority: ready ring, then slot.
Drained(p) == ready[p] \o current[p]

RECURSIVE DrainAll(_)
DrainAll(p) ==
  IF p >= conf.np THEN << >>
  ELSE [k \in 1 .. Len(Drained(p)) |-> [p |-> p, b |-> Drained(p)[k]]]
       \o DrainAll(p + 1)

\* drain(), lines 710-717, with every current_slot mutex held.
DrainTake ==
  /\ cs.ph = "drain"
  /\ cs.i = conf.np
  /\ cs' = [IdleConsumer EXCEPT !.res = "drain", !.out = DrainAll(0),
                                 !.snap = cs.snap]
  /\ held' = [p \in Prios |-> held[p] + Len(Drained(p))]
  /\ ready' = [p \in Prios |-> << >>]
  /\ current' = [p \in Prios |-> << >>]
  /\ curLock' = [p \in Prios |-> Free]
  /\ UNCHANGED << refill, bytes, nOut, retry, lastBytes, obs, backoffFlag >>
  /\ UNCHANGED prodVars

\* The consumer is dropped: the senders of the refill signal channels go
\* with it, and every wait on them fails from then on.
ConsumerDrop ==
  /\ cs.ph = "idle"
  /\ cs' = [cs EXCEPT !.ph = "dropped"]
  /\ refClosed' = TRUE
  /\ UNCHANGED << conf, bk, outClosed, refill, ready, current, curLock, inLock,
                  bytes,
                  backoffFlag, nRef, nOut, active, chan, th, retry, lastBytes,
                  held, dis, nextId, fillCtr, visible, obs >>

\* Every clone of the producer is dropped, none being in a call: the
\* senders of the ready signal channel go with the StageIn objects, and a
\* wait on the empty channel fails from then on.
ProducerDrop ==
  /\ ~outClosed
  /\ \A t \in Threads : th[t].ph = "idle"
  /\ dis.ph # "lock"
  /\ outClosed' = TRUE
  /\ UNCHANGED << conf, bk, refill, ready, current, curLock, inLock, bytes,
                  backoffFlag, nRef, refClosed, nOut, active, chan, th, cs,
                  retry, lastBytes, held, dis, nextId, fillCtr, visible, obs >>

\* ------------------------------- TransmissionPipelineProducer::disable
\* Line 620.
DisableStart ==
  /\ dis.ph = "idle"
  /\ active' = FALSE
  /\ dis' = [ph |-> "lock", i |-> 0]
  /\ UNCHANGED << refill, ready, current, curLock, inLock, bytes, nRef,
                  refClosed, nOut, chan, th, nextId, fillCtr, visible >>
  /\ UNCHANGED consVars

\* Lines 624-625: the StageIn mutexes are taken in index order.
DisableLock ==
  /\ dis.ph = "lock"
  /\ dis.i < conf.np
  /\ inLock[dis.i] = Free
  /\ inLock' = [inLock EXCEPT ![dis.i] = DisableOwner]
  /\ dis' = [dis EXCEPT !.i = dis.i + 1]
  /\ UNCHANGED << refill, ready, current, curLock, bytes, nRef, refClosed,
                  nOut, active, chan, th, nextId, fillCtr, visible >>
  /\ UNCHANGED consVars

\* The ready signal channel, holding n messages, after the notify calls of
\* lines 628-630 on the priorities from p on.
RECURSIVE NotifyFrom(_, _)
NotifyFrom(p, n) ==
  IF p >= conf.np THEN n
  ELSE NotifyFrom(p + 1, NotifySignal(backoffFlag[p], n))

\* Lines 628-630: notify(BatchSize::MAX) on every priority, then the guards
\* are dropped.
DisableNotify ==
  /\ dis.ph = "lock"
  /\ dis.i = conf.np
  /\ bytes' = [p \in Prios |-> IF p < conf.np
                               THEN NotifyBytes(bytes[p], BatchSizeMax)
                               ELSE bytes[p]]
  /\ nOut' = NotifyFrom(0, nOut)
  /\ inLock' = [p \in Prios |-> Free]
  /\ dis' = [ph |-> "done", i |-> 0]
  /\ UNCHANGED << refill, ready, current, curLock, nRef, refClosed, active,
                  chan, th, nextId, fillCtr, visible >>
  /\ UNCHANGED consVars

\* ---------------------------------------------------------- specification
ProducerStep(t) ==
  \/ LockStageIn(t)
  \/ GetBatchWait(t)
  \/ WaitWake(t)
  \/ \E how \in {"closed", "timeout"} : WaitFail(t, how)
  \/ NetEncode1(t)
  \/ NetEncode2(t)
  \/ FragEncode(t)
  \/ TransEncode1(t)
  \/ TransEncode2(t)
  \/ TransNotify(t)

ConsumerStep ==
  \/ PullStart
  \/ PullHead
  \/ TryPullRing
  \/ TryPullDeep
  \/ \E how \in {"recv", "timeout"} : PullWait(how)
  \/ \E p \in Prios : Refill(p)

\* The messages of the main specification: a droppable frame, a
\* best-effort one, and a message whose second fragment the codec refuses;
\* transport messages of one byte and of Mtu - 1 bytes.
CoreNet ==
  { [p |-> 0, rel |-> TRUE, drop |-> TRUE, size |-> 1, failAt |-> 0],
    [p |-> 0, rel |-> FALSE, drop |-> FALSE, size |-> 1, failAt |-> 0],
    [p |-> 0, rel |-> TRUE, drop |-> FALSE, size |-> Mtu, failAt |-> 2] }
CoreTrans == {m \in TransMsgs : m.p = 0}

Next ==
  \/ \E t \in Threads : \E m \in CoreNet : PushNetStart(t, m)
  \/ \E t \in Threads : \E m \in CoreTrans : PushTransStart(t, m)
  \/ \E t \in Threads : ProducerStep(t)
  \/ ConsumerStep
  \/ ConsumerDrop

Spec == Init /\ [][Next]_vars

\* ------------------------------------------------- two priorities (C9)
\* Two priority queues of one batch each; frames of one byte on both.
PrioNet ==
  {m \in NetMsgs : m.rel /\ ~m.drop /\ m.size = 1 /\ m.failAt = 0}

InitPrio == Make(2, 1)

NextPrio ==
  \/ \E t \in Threads : \E m \in PrioNet : PushNetStart(t, m)
  \/ \E t \in Threads : LockStageIn(t)
  \/ \E t \in Threads : GetBatchWait(t)
  \/ \E t \in Threads : WaitWake(t)
  \/ \E t \in Threads : NetEncode1(t)
  \/ ConsumerStep

SpecPrio == InitPrio /\ [][NextPrio]_vars

\* ------------------------------------ a consumer that stays away (C6, C7)
\* One queue of one batch, and a consumer that never pulls nor refills; it
\* may be dropped. Frames of one byte, droppable or not.
StallNet ==
  {m \in NetMsgs : m.p = 0 /\ m.rel /\ m.size = 1 /\ m.failAt = 0}

InitStall == Make(1, 1)

\* The steps of the push calls under way.
StallStep(t) ==
  \/ LockStageIn(t)
  \/ GetBatchWait(t)
  \/ \E how \in {"closed", "timeout"} : WaitFail(t, how)
  \/ NetEncode1(t)

NextStall ==
  \/ \E t \in Threads : \E m \in StallNet : PushNetStart(t, m)
  \/ \E t \in Threads : StallStep(t)
  \/ ConsumerDrop

SpecStall == InitStall /\ [][NextStall]_vars

\* ------------------------------------- producer and consumer loops (C8)
\* The flow test (lines 775-895): one queue of one batch, one producer
\* pushing non-droppable messages, some of which need fragmentation, and a
\* consumer that pulls a batch, refills it, and pulls again.
FlowNet ==
  {m \in NetMsgs : m.p = 0 /\ m.rel /\ ~m.drop /\ m.failAt = 0}

InitFlow == Make(1, 1)

FlowProducerStep ==
  \/ GetBatchWait(1)
  \/ WaitWake(1)
  \/ NetEncode1(1)
  \/ FragEncode(1)

FlowConsumerStep ==
  \/ (\A p \in Prios : held[p] = 0) /\ PullStart
  \/ PullHead
  \/ TryPullRing
  \/ TryPullDeep
  \/ \E how \in {"recv", "timeout"} : PullWait(how)
  \/ \E p \in Prios : Refill(p)

NextFlow ==
  \/ \E m \in FlowNet : PushNetStart(1, m)
  \/ FlowProducerStep
  \/ FlowConsumerStep

\* The producer thread and the consumer task keep running.
SpecFlow ==
  /\ InitFlow
  /\ [][NextFlow]_vars
  /\ WF_vars(FlowProducerStep)
  /\ WF_vars(FlowConsumerStep)

\* ------------------------------------------- drops and closures (C5)
\* One queue of one batch and one producer thread: the pushes of one
\* priority are serialized by its StageIn mutex, so one thread makes every
\* sequence of calls the pipeline can see. Messages that are dropped at a
\* deadline, that are fragmented, and whose fragmentation fails; transport
\* messages that fill a batch; a consumer that may be dropped.
DropNet ==
  { [p |-> 0, rel |-> TRUE, drop |-> TRUE, size |-> 1, failAt |-> 0],
    [p |-> 0, rel |-> FALSE, drop |-> FALSE, size |-> 1, failAt |-> 0],
    [p |-> 0, rel |-> TRUE, drop |-> TRUE, size |-> Mtu, failAt |-> 0],
    [p |-> 0, rel |-> TRUE, drop |-> FALSE, size |-> Mtu, failAt |-> 2] }
DropTrans == {m \in TransMsgs : m.p = 0 /\ m.size = Mtu - 1}

InitDrop == Make(1, 1)

DropProducerStep ==
  \/ GetBatchWait(1)
  \/ WaitWake(1)
  \/ \E how \in {"closed", "timeout"} : WaitFail(1, how)
  \/ NetEncode1(1)
  \/ NetEncode2(1)
  \/ FragEncode(1)
  \/ TransEncode1(1)
  \/ TransEncode2(1)
  \/ TransNotify(1)

NextDrop ==
  \/ \E m \in DropNet : PushNetStart(1, m)
  \/ \E m \in DropTrans : PushTransStart(1, m)
  \/ DropProducerStep
  \/ ConsumerStep
  \/ ConsumerDrop

SpecDrop == InitDrop /\ [][NextDrop]_vars

\* ------------------------------------------------ order of batches (C10)
\* One queue of two batches, one producer thread pushing frames, fragmented
\* messages and transport messages, racing with pull() and refill().
OrderNet ==
  { [p |-> 0, rel |-> TRUE, drop |-> FALSE, size |-> 1, failAt |-> 0],
    [p |-> 0, rel |-> TRUE, drop |-> FALSE, size |-> Mtu, failAt |-> 0] }
OrderTrans == {m \in TransMsgs : m.p = 0}

InitOrder == Make(1, 2)

OrderProducerStep ==
  \/ GetBatchWait(1)
  \/ WaitWake(1)
  \/ NetEncode1(1)
  \/ NetEncode2(1)
  \/ FragEncode(1)
  \/ TransEncode1(1)
  \/ TransEncode2(1)
  \/ TransNotify(1)

NextOrder ==
  \/ \E m \in OrderNet : PushNetStart(1, m)
  \/ \E m \in OrderTrans : PushTransStart(1, m)
  \/ OrderProducerStep
  \/ ConsumerStep

SpecOrder == InitOrder /\ [][NextOrder]_vars

\* ------------------------------------------------- disable() (C11-C13)
\* Two priority queues of one batch each, one producer thread pushing
\* non-droppable frames at priority 0 and transport messages of one byte at
\* priority 1, a consumer that pulls and keeps the batches it gets, so that
\* the producer ends up blocked in the refill wait, and a thread that calls
\* disable() once.
DisableNet ==
  {m \in NetMsgs : m.p = 0 /\ m.rel /\ ~m.drop /\ m.size = 1 /\ m.failAt = 0}
DisableTrans == {m \in TransMsgs : m.p = 1 /\ m.size = 1}

InitDisable == Make(2, 1)

DisableProducerStep ==
  \/ LockStageIn(1)
  \/ GetBatchWait(1)
  \/ NetEncode1(1)
  \/ TransEncode1(1)
  \/ TransNotify(1)

DisableStep ==
  \/ DisableStart
  \/ DisableLock
  \/ DisableNotify

\* The steps of a pull() call under way.
PullStep ==
  \/ PullHead
  \/ TryPullRing
  \/ TryPullDeep
  \/ \E how \in {"recv", "timeout"} : PullWait(how)

NextDisable ==
  \/ \E m \in DisableNet : PushNetStart(1, m)
  \/ \E m \in DisableTrans : PushTransStart(1, m)
  \/ DisableProducerStep
  \/ DisableStep
  \/ PullStart
  \/ PullStep

\* The consumer task, once in pull(), keeps running.
SpecDisable ==
  /\ InitDisable
  /\ [][NextDisable]_vars
  /\ WF_vars(PullStep)

\* ------------------------------------------------------- drain() (C14)
\* Two priority queues of two batches each, one producer thread pushing
\* frames and transport messages of one byte at both priorities, and a
\* consumer that calls drain() and refills what it got.
DrainNet ==
  {m \in NetMsgs : m.rel /\ ~m.drop /\ m.size = 1 /\ m.failAt = 0}
DrainTrans == {m \in TransMsgs : m.size = 1}

InitDrain == Make(2, 2)

DrainProducerStep ==
  \/ GetBatchWait(1)
  \/ WaitWake(1)
  \/ NetEncode1(1)
  \/ NetEncode2(1)
  \/ TransEncode1(1)
  \/ TransNotify(1)

DrainStep ==
  \/ DrainStart
  \/ DrainLock
  \/ DrainTake

NextDrain ==
  \/ \E m \in DrainNet : PushNetStart(1, m)
  \/ \E m \in DrainTrans : PushTransStart(1, m)
  \/ DrainProducerStep
  \/ DrainStep
  \/ \E p \in Prios : Refill(p)

SpecDrain == InitDrain /\ [][NextDrain]_vars

\* --------------------------------------- the blocking test (C15)
\* tests::tx_pipeline_blocking (lines 898-995): one queue of one batch, two
\* producer threads pushing non-droppable messages, one message to a batch,
\* and a task that owns the consumer, calls drain() and ends, which drops
\* the consumer.
BlockingNet ==
  {m \in NetMsgs : m.p = 0 /\ m.rel /\ ~m.drop /\ m.size = 1 /\ m.failAt = 0}

InitBlocking == Make(1, 1)

BlockingProducerStep(t) ==
  \/ LockStageIn(t)
  \/ GetBatchWait(t)
  \/ WaitFail(t, "closed")
  \/ NetEncode1(t)

\* Lines 981-984: the closure after drain() was called: the locks, the
\* take, and the end of the closure.
BlockingDrainTask ==
  \/ DrainLock
  \/ DrainTake
  \/ cs.res = "drain" /\ ConsumerDrop

NextBlocking ==
  \/ \E t \in Threads : \E m \in BlockingNet : PushNetStart(t, m)
  \/ \E t \in Threads : BlockingProducerStep(t)
  \/ cs.res # "drain" /\ DrainStart
  \/ BlockingDrainTask

\* The producer threads and the draining task keep running.
SpecBlocking ==
  /\ InitBlocking
  /\ [][NextBlocking]_vars
  /\ \A t \in Threads : WF_vars(BlockingProducerStep(t))
  /\ WF_vars(BlockingDrainTask)

\* ------------------------------------------- coalescing in the slot (C17)
\* One queue of two batches, one producer thread pushing transport messages
\* of one byte, which stay in the current_slot, and a consumer that pulls a
\* batch, refills it and pulls again.
CoalesceTrans == {m \in TransMsgs : m.p = 0 /\ m.size = 1}

InitCoalesce == Make(1, 2)

CoalesceProducerStep ==
  \/ TransEncode1(1)
  \/ TransNotify(1)

NextCoalesce ==
  \/ \E m \in CoalesceTrans : PushTransStart(1, m)
  \/ CoalesceProducerStep
  \/ FlowConsumerStep

\* The producer thread and the consumer task keep running.
SpecCoalesce ==
  /\ InitCoalesce
  /\ [][NextCoalesce]_vars
  /\ WF_vars(CoalesceProducerStep)
  /\ WF_vars(FlowConsumerStep)

\* ------------------------------------------------- full rings (C29)
\* One queue of as many batches as a ring holds, one producer thread
\* pushing frames, one to a batch, and transport messages, and a consumer
\* that gets batches from pull() and from drain() and refills them.
RingsNet ==
  {m \in NetMsgs : m.p = 0 /\ m.rel /\ ~m.drop /\ m.size = 1 /\ m.failAt = 0}
RingsTrans == {m \in TransMsgs : m.p = 0}

InitRings == Make(1, RBLEN)

RingsProducerStep ==
  \/ GetBatchWait(1)
  \/ WaitWake(1)
  \/ NetEncode1(1)
  \/ NetEncode2(1)
  \/ TransEncode1(1)
  \/ TransEncode2(1)
  \/ TransNotify(1)

NextRings ==
  \/ \E m \in RingsNet : PushNetStart(1, m)
  \/ \E m \in RingsTrans : PushTransStart(1, m)
  \/ RingsProducerStep
  \/ ConsumerStep
  \/ DrainStep

SpecRings == InitRings /\ [][NextRings]_vars

\* ------------------------------------------ refill and the wait (C27)
\* One queue of one batch, one producer thread pushing non-droppable frames,
\* one to a batch, and a consumer that pulls and refills, the refill in its
\* two steps.
RefillNet ==
  {m \in NetMsgs : m.p = 0 /\ m.rel /\ ~m.drop /\ m.size = 1 /\ m.failAt = 0}

InitRefill == Make(1, 1)

RefillProducerStep ==
  \/ GetBatchWait(1)
  \/ WaitWake(1)
  \/ NetEncode1(1)

NextRefill ==
  \/ \E m \in RefillNet : PushNetStart(1, m)
  \/ RefillProducerStep
  \/ PullStart
  \/ PullStep
  \/ \E p \in Prios : RefillFirst(p)
  \/ RefillSecond

\* The producer thread keeps running, and the consumer ends the refill it
\* began.
SpecRefill ==
  /\ InitRefill
  /\ [][NextRefill]_vars
  /\ WF_vars(RefillProducerStep)
  /\ WF_vars(RefillSecond)

\* ------------------------------------------------ the mutexes (C26)
\* Two priority queues of two batches each and two producer threads,
\* thread 1 pushing fragmented messages and thread 2 transport messages,
\* each at both priorities, a thread that calls disable() once, and a
\* consumer that calls drain() and keeps what it got, so that the producers
\* end up blocked in the refill wait.
LocksNet ==
  {m \in NetMsgs : m.rel /\ ~m.drop /\ m.size = Mtu /\ m.failAt = 0}
LocksTrans == {m \in TransMsgs : m.size = 1}

InitLocks == Make(2, 2)

LocksProducerStep(t) ==
  \/ LockStageIn(t)
  \/ GetBatchWait(t)
  \/ NetEncode1(t)
  \/ NetEncode2(t)
  \/ FragEncode(t)
  \/ TransEncode1(t)
  \/ TransNotify(t)

NextLocks ==
  \/ \E m \in LocksNet : PushNetStart(1, m)
  \/ \E m \in LocksTrans : PushTransStart(2, m)
  \/ \E t \in Threads : LocksProducerStep(t)
  \/ DisableStep
  \/ DrainStep

SpecLocks == InitLocks /\ [][NextLocks]_vars

\* --------------------------------------- pull() returning None (C25)
\* Two priority queues of one batch each, one producer thread pushing
\* frames at priority 0 and transport messages at priority 1, a thread that
\* calls disable() once, producers that are dropped in the end, and a
\* consumer that pulls and keeps the batches it gets.
InitClose == Make(2, 1)

NextClose ==
  \/ ~outClosed /\ \E m \in DisableNet : PushNetStart(1, m)
  \/ ~outClosed /\ \E m \in DisableTrans : PushTransStart(1, m)
  \/ DisableProducerStep
  \/ ~outClosed /\ DisableStart
  \/ DisableLock
  \/ DisableNotify
  \/ ProducerDrop
  \/ PullStart
  \/ PullHead
  \/ TryPullRing
  \/ TryPullDeep
  \/ \E how \in {"recv", "timeout", "closed"} : PullWait(how)

SpecClose == InitClose /\ [][NextClose]_vars

\* ------------------------------------------- signals to the consumer (C24)
\* One queue of two batches, one producer thread pushing transport messages
\* that stay in the current_slot or push the batch before out of it, a
\* thread that calls disable() once, and a consumer that pulls and refills.
SignalTrans == {m \in TransMsgs : m.p = 0}

InitSignal == Make(1, 2)

SignalProducerStep ==
  \/ LockStageIn(1)
  \/ GetBatchWait(1)
  \/ WaitWake(1)
  \/ TransEncode1(1)
  \/ TransEncode2(1)
  \/ TransNotify(1)

NextSignal ==
  \/ \E m \in SignalTrans : PushTransStart(1, m)
  \/ SignalProducerStep
  \/ DisableStep
  \/ ConsumerStep

SpecSignal == InitSignal /\ [][NextSignal]_vars

\* ------------------------------------------- Backoff on its own (C23)
\* The values of config.backoff a Backoff is made with: the 1 us of the
\* tests, small ones, ones near the halves and the maximum.
TslotInputs ==
  { << 0, 0 >>, << 0, 1 >>, << 0, 3 >>, << 0, 1000 >>, << 0, Half - 1 >>,
    << 1, 0 >>, << Half \div 2 - 1, Half - 1 >>, << Half \div 2, 0 >>,
    << Half \div 2, 1 >>, U32Max }

pipeVars ==
  << conf, refill, ready, current, curLock, inLock, bytes, backoffFlag, nRef,
     refClosed, nOut, outClosed, active, chan, th, cs, retry, lastBytes, held,
     dis, nextId, fillCtr, visible, obs >>

BkNew(ts) ==
  /\ ~bk.made
  /\ bk' = BackoffNew(ts)
  /\ UNCHANGED pipeVars

BkNext ==
  /\ bk.made
  /\ bk.k < MaxNext
  /\ bk' = BackoffNextWide(bk)
  /\ UNCHANGED pipeVars

BkReset ==
  /\ bk.made
  /\ bk' = BackoffReset(bk)
  /\ UNCHANGED pipeVars

InitBackoff == Make(1, 1)

NextBackoff ==
  \/ \E ts \in TslotInputs : BkNew(ts)
  \/ BkNext
  \/ BkReset

SpecBackoff == InitBackoff /\ [][NextBackoff]_vars

\* ------------------------------------------------------------ properties
\* No producer operation is in progress on priority p: the StageIn mutex,
\* which a push holds from its start to its return, is free.
Quiescent(p) == p < conf.np /\ inLock[p] = Free

\* The batches of priority p the pipeline and the consumer account for.
Accounted(p) == refill[p] + Len(ready[p]) + Len(current[p]) + held[p]

\* C1: batch conservation. For every priority with no producer operation
\* in progress, the batches in the refill ring, in the ready ring, in the
\* current_slot and held by the consumer are as many as the queue size the
\* pipeline was made with.
C1_BatchConservation ==
  \A p \in Prios : Quiescent(p) => Accounted(p) = conf.qs

\* The frame and fragment headers the consumer obtained, as positions
\* << index in obs, index in the batch >>.
Headers ==
  {<< a, i >> \in (1 .. Len(obs)) \X (1 .. Mtu) :
     i <= Len(obs[a].items) /\ obs[a].items[i].k \in {"F", "G"}}
Before(x, y) == x[1] < y[1] \/ (x[1] = y[1] /\ x[2] < y[2])
HeaderAt(x) == obs[x[1]].items[x[2]]
SameChannel(x, y) ==
  obs[x[1]].p = obs[y[1]].p /\ HeaderAt(x).ch = HeaderAt(y).ch

\* C2: for every (priority, reliability) channel the SNs of the frame and
\* fragment headers the consumer obtains are strictly increasing in pull
\* order, except that non-final fragments of one series may share an SN.
C2_SnStrictlyIncreasing ==
  \A x, y \in Headers :
    (Before(x, y) /\ SameChannel(x, y)) =>
      \/ HeaderAt(x).sn < HeaderAt(y).sn
      \/ /\ HeaderAt(x).sn = HeaderAt(y).sn
         /\ HeaderAt(x).k = "G" /\ HeaderAt(y).k = "G"
         /\ HeaderAt(x).id = HeaderAt(y).id
         /\ HeaderAt(x).more /\ HeaderAt(y).more

\* C3: push_network_message returns true only if the whole message, or its
\* final fragment after all the others, has been moved to the ready ring.
C3_TrueOnlyIfAccepted ==
  \A t \in Threads :
    (th[t].op = "net" /\ th[t].ret = "true") => th[t].id \in visible

\* C4: whenever push_transport_message returns true, the batch the message
\* was encoded into has been stored in current_slot (or moved to the ready
\* ring), on every path.
C4_TransportBatchKept ==
  \A t \in Threads :
    (th[t].op = "trans" /\ th[t].ret = "true") => th[t].id \in visible

\* A call of thread t returns in this step.
Returns(t) == th[t].ph # "idle" /\ th'[t].ph = "idle"

\* C5: whenever push_network_message returns false, the SN generator of the
\* message's channel holds the value it held when the call began.
C5_SnRestoredOnFalse ==
  [][\A t \in Threads :
       (Returns(t) /\ th[t].op = "net" /\ th'[t].ret = "false") =>
         chan'[th[t].m.p][Channel(th[t].m)] = th[t].snStart]_vars

\* A push of a network message was dropped while it waited for the batch
\* of a later fragment, after an earlier fragment had gone out.
C5_Witness ==
  \E t \in Threads :
    /\ th[t].op = "net" /\ th[t].ret = "false" /\ th[t].st = "nf"
    /\ \E q \in Prios : \E k \in 1 .. Len(ready[q]) :
         \E i \in 1 .. Len(ready[q][k].items) :
           ready[q][k].items[i].id = th[t].id

\* A droppable network message that fits a batch is being pushed by t.
DroppablePending(t) ==
  /\ th[t].ph # "idle" /\ th[t].op = "net"
  /\ th[t].m.drop /\ th[t].m.size + FrameHdrLen <= Mtu

\* C6: a droppable network message that needs no fragmentation never blocks
\* its sender for good: with the consumer alive and never pulling nor
\* refilling, while such a push is under way some push call can take a step
\* (at the latest the step of its own deadline).
C6_DroppableNeverStuck ==
  \A t \in Threads :
    (DroppablePending(t) /\ ~refClosed) => ENABLED (\E u \in Threads : StallStep(u))

\* A push of a non-droppable network message by t returns in this step.
NonDroppableReturns(t) ==
  Returns(t) /\ th[t].op = "net" /\ ~th[t].m.drop

\* C7: backpressure. A non-droppable push_network_message returns only
\* from a state where its priority has a batch for it or the refill signal
\* channel is closed; and with a consumer that neither pulls nor refills no
\* more pushes are accepted than the queue has batches.
C7_Backpressure ==
  /\ [](Cardinality(visible) <= conf.qs)
  /\ [][\A t \in Threads :
          NonDroppableReturns(t) => (HasBatch(th[t].m.p) \/ refClosed)]_vars

\* As many pushes were accepted as the queue has batches, and a further
\* non-droppable push is blocked in the refill wait, the channel open.
C7_Witness ==
  /\ Cardinality(visible) = conf.qs
  /\ ~refClosed
  /\ \E t \in Threads : th[t].ph = "wait" /\ ~th[t].m.drop

\* How many times the consumer obtained message id whole: in a frame, or as
\* the final fragment of its series.
Obtained(id) ==
  Cardinality({<< a, i >> \in (1 .. Len(obs)) \X (1 .. Mtu) :
                 /\ i <= Len(obs[a].items)
                 /\ obs[a].items[i].id = id
                 /\ (obs[a].items[i].k = "G" => ~obs[a].items[i].more)})

\* C8: end-to-end delivery. With producer and consumer running, every push
\* of a non-droppable network message returns true and the consumer obtains
\* every pushed message, and none twice.
C8_EndToEndDelivery ==
  /\ [](\A id \in 1 .. MaxMsgs : Obtained(id) <= 1)
  /\ [](th[1].ret # "false")
  /\ (th[1].ph # "idle") ~> (th[1].ph = "idle" /\ th[1].ret = "true")
  /\ \A id \in 1 .. MaxMsgs : (nextId >= id) ~> (Obtained(id) = 1)

\* Every message was pushed and obtained once, one of them in fragments.
C8_Witness ==
  /\ nextId = MaxMsgs
  /\ \A id \in 1 .. MaxMsgs : Obtained(id) = 1
  /\ \E a \in 1 .. Len(obs) : obs[a].items[1].k = "G"

\* C9: strict priority. With the pipeline active, a pull() that found a
\* batch in some ready ring, when the call started or when the scan examined
\* that ring, returns a batch, and of no lower priority than any such ring.
C9_StrictPriority ==
  (cs.ph = "idle" /\ cs.sr \cup cs.seen # {}) =>
    /\ cs.res = "some"
    /\ \A i \in cs.sr \cup cs.seen : cs.rp <= i

\* Batches were ready at both priorities when pull() started, and it
\* returned the one of priority 0.
C9_Witness ==
  cs.ph = "idle" /\ cs.res = "some" /\ cs.sr = {0, 1} /\ cs.rp = 0

\* C10: per-priority order. The batches pull() returned for one priority
\* come in the order of their first write.
C10_PerPriorityOrder ==
  \A a, b \in 1 .. Len(obs) :
    (a < b /\ obs[a].p = obs[b].p /\ obs[a].ord > 0 /\ obs[b].ord > 0)
      => obs[a].ord < obs[b].ord

\* pull() returned a batch through the deep pull's second look at the
\* ready ring while the current_slot held a younger batch.
C10_Witness ==
  /\ cs.res = "some" /\ cs.from = "deepring"
  /\ current[cs.rp] # << >>
  /\ obs # << >>
  /\ current[cs.rp][1].ord > obs[Len(obs)].ord

\* C11: a pull() call that starts after disable() has set the pipeline
\* inactive never enters the scan and returns None, never a batch, whatever
\* the ready rings and the current slots hold.
C11_PullAfterDisable ==
  cs.off => /\ cs.ph \in {"head", "idle"}
            /\ (cs.ph = "idle" => cs.res = "none")

\* A pull() that started after disable() returned None while a ready ring
\* and a current_slot held a batch.
C11_Witness ==
  /\ cs.off /\ cs.ph = "idle" /\ cs.res = "none"
  /\ \E p \in Prios : ready[p] # << >>
  /\ \E p \in Prios : current[p] # << >>

\* C12: a pull() suspended in its timed wait when the pipeline is disabled
\* leaves the wait, by a ready signal or by its timeout, sees the flag at
\* the loop test and returns None.
C12_InFlightPullEnds ==
  /\ [][(~active /\ cs.ph = "wait" /\ cs'.ph # "wait") => cs'.ph = "head"]_vars
  /\ [][(~active /\ cs.ph = "head" /\ cs'.ph # "head") =>
          (cs'.ph = "idle" /\ cs'.res = "none")]_vars
  /\ (~active /\ cs.ph = "wait") ~> (cs.ph = "idle" /\ cs.res = "none")

\* A pull() that began before disable() returned None while disable() was
\* still waiting for a StageIn mutex, a producer being blocked in the refill
\* wait, and a priority was in backoff.
C12_Witness ==
  /\ cs.ph = "idle" /\ cs.res = "none" /\ ~cs.off
  /\ dis.ph = "lock"
  /\ \E t \in Threads : th[t].ph = "wait"
  /\ \E p \in Prios : backoffFlag[p]

\* A non-droppable push is blocked in the refill wait.
BlockedOnRefill(t) == th[t].ph = "wait" /\ th[t].op = "net" /\ ~th[t].m.drop

\* C13: disable() does not wait for a producer blocked in the refill wait:
\* while a non-droppable push is blocked there and disable() has not yet
\* issued its notifications, disable() can take its next step (lock the
\* next StageIn mutex, or notify).
C13_DisableNotBlocked ==
  (dis.ph = "lock" /\ \E t \in Threads : BlockedOnRefill(t)) =>
    ENABLED (DisableLock \/ DisableNotify)

\* drain() returns in this step.
DrainReturns == cs.ph = "drain" /\ cs'.ph = "idle"

\* The batches of a drain() result that are tagged with priority p.
TaggedWith(out, p) == SelectSeq(out, LAMBDA e : e.p = p)

\* C14: drain() returns, tagged with their priority, exactly the batches
\* that are in each ready ring followed by the batch of the current_slot
\* when it holds every current_slot mutex, among them every written batch
\* that was there when it was called; it leaves the rings and the slots
\* empty and every refill ring as it was.
C14_DrainFrame ==
  [][DrainReturns =>
       /\ \A p \in Prios :
            LET got == TaggedWith(cs'.out, p)
            IN /\ Len(got) = Len(ready[p]) + Len(current[p])
               /\ \A k \in 1 .. Len(ready[p]) : got[k].b = ready[p][k]
               /\ current[p] # << >> => got[Len(got)].b = current[p][1]
               /\ ready'[p] = << >> /\ current'[p] = << >>
       /\ \A e \in cs.snap :
            \E k \in 1 .. Len(cs'.out) :
              cs'.out[k].p = e[1] /\ cs'.out[k].b.ord = e[2]
       /\ \A k \in 1 .. Len(cs'.out) : cs'.out[k].p < conf.np
       /\ refill' = refill]_vars

\* drain() returned a batch of a ready ring and the batch of a current_slot
\* while a refill ring held a batch.
C14_Witness ==
  /\ cs.ph = "idle" /\ cs.res = "drain"
  /\ \E k \in 1 .. Len(cs.out) : cs.out[k].b.items[1].k = "F"
  /\ \E k \in 1 .. Len(cs.out) : cs.out[k].b.items[1].k = "T"
  /\ \E p \in Prios : refill[p] > 0
  /\ \A p \in Prios : ready[p] = << >> /\ current[p] = << >>

\* drain() has been called.
DrainInvoked == cs.ph \in {"drain", "dropped"} \/ cs.res = "drain"

RECURSIVE Flat(_)
Flat(bs) == IF bs = << >> THEN << >> ELSE Head(bs).items \o Flat(Tail(bs))

\* The ready stream of priority p: what pull() returned for it, then what
\* its ready ring holds.
ReadyStream(p) == Flat(SelectSeq(obs, LAMBDA o : o.p = p)) \o Flat(ready[p])

\* The push of message id has ended and the stream s holds fragments of it
\* but not a final one.
IncompleteSeries(id, s) ==
  /\ \A t \in Threads : th[t].id = id => th[t].ph = "idle"
  /\ \E i \in 1 .. Len(s) : s[i].id = id /\ s[i].k = "G"
  /\ \A i \in 1 .. Len(s) : (s[i].id = id /\ s[i].k = "G") => s[i].more

\* C16: every fragment series in a ready stream is complete or was ended by
\* the fragmentation-failure warning (checked for the calls that ended with
\* the consumer alive), and no frame or fragment that follows an incomplete
\* series in its channel carries an SN of that series.
C16_SeriesCompleteOrAbandoned ==
  \A p \in Prios :
    LET s == ReadyStream(p)
    IN /\ \A t \in Threads :
            (IncompleteSeries(th[t].id, s) /\ th[t].m.p = p /\ ~refClosed)
              => th[t].how = "fragfail"
       /\ \A i, j \in 1 .. Len(s) :
            (/\ i < j
             /\ IncompleteSeries(s[i].id, s)
             /\ s[j].k \in {"F", "G"} /\ s[j].id # s[i].id
             /\ s[j].ch = s[i].ch)
              => s[j].sn # s[i].sn

\* Thread t stores its transport message in the current_slot in this step.
TransStores(t) ==
  th[t].op = "trans" /\ th[t].ph = "get" /\ th'[t].ph = "notify"

\* The message ids written on batch b.
IdsOf(b) == {b.items[k].id : k \in 1 .. Len(b.items)}

\* C17: coalescing flush. A transport message pushed while the batch of the
\* one before is still in the current_slot, and fitting it, is written on
\* that batch, which stays in the slot; and with the pipeline active, the
\* producer done and the consumer pulling, every such message is returned
\* by pull(), from the current_slot through the deep pull, in one batch only.
C17_CoalescingFlush ==
  /\ [][\A t \in Threads :
          LET p == th[t].m.p
          IN (/\ TransStores(t)
              /\ current[p] # << >>
              /\ TransFits(current[p][1], th[t].m))
               => /\ Len(current'[p]) = 1
                  /\ IdsOf(current'[p][1]) = IdsOf(current[p][1]) \cup {th[t].id}
                  /\ current'[p][1].ord = current[p][1].ord
                  /\ ready' = ready]_vars
  /\ [][obs' # obs => cs'.from = "slot"]_vars
  /\ [](\A id \in 1 .. MaxMsgs : Obtained(id) <= 1)
  /\ \A id \in 1 .. MaxMsgs : (id \in visible) ~> (Obtained(id) = 1)

\* pull() returned, from the current_slot, one batch that holds the messages
\* of two push_transport_message calls.
C17_Witness ==
  /\ cs.ph = "idle" /\ cs.res = "some" /\ cs.from = "slot"
  /\ obs # << >>
  /\ Cardinality({obs[Len(obs)].items[k].id :
                    k \in 1 .. Len(obs[Len(obs)].items)}) >= 2

\* C18: whenever the current_slot of a priority is empty (and its mutex
\* free), the priority's bytes_hint is zero; whenever it holds a batch and
\* no notification of a transport write is pending, bytes_hint is the
\* length of that batch.
C18_BytesHintTracksSlot ==
  \A p \in Prios :
    curLock[p] = Free =>
      /\ current[p] = << >> => bytes[p] = 0
      /\ (current[p] # << >> /\ \A t \in Threads : th[t].ph # "notify")
           => bytes[p] = current[p][1].len

\* C19: a push_network_message that moved the non-empty current batch out
\* because the framed encode did not fit is not dropped at its deadline
\* while it acquires the fresh batch.
C19_NoDropAfterMoveOut ==
  \A t \in Threads :
    (th[t].ph = "idle" /\ th[t].op = "net" /\ th[t].st = "n2")
      => th[t].how # "timeout"

\* C20: a push_network_message that has started fragmenting is never ended
\* by the drop deadline: it returns after its last fragment, after a
\* fragment encode failure, or false when the refill signal channel closed.
C20_NoDeadlineInFragmentation ==
  \A t \in Threads :
    (th[t].ph = "idle" /\ th[t].op = "net" /\ th[t].st = "nf")
      => /\ th[t].how \in {"fragments", "fragfail", "closed"}
         /\ th[t].ret = "false" => (th[t].how = "closed" /\ refClosed)

\* A droppable message waits for the batch of a later fragment, its first
\* fragment handed off and the refill signal channel open.
C20_Witness ==
  \E t \in Threads :
    /\ th[t].ph = "wait" /\ th[t].st = "nf"
    /\ th[t].m.drop /\ th[t].frag >= 1
    /\ ~refClosed

\* ------------------------------------- fragments and other producers (C21)
\* One queue of two batches and two producer threads at the same priority:
\* thread 1 pushes messages that are fragmented, thread 2 frames and
\* transport messages of one byte; the consumer pulls a batch, refills it
\* and pulls again.
ContigFragmented ==
  { [p |-> 0, rel |-> TRUE, drop |-> FALSE, size |-> Mtu, failAt |-> 0] }
ContigNet ==
  { [p |-> 0, rel |-> TRUE, drop |-> FALSE, size |-> 1, failAt |-> 0] }
ContigTrans == {m \in TransMsgs : m.p = 0 /\ m.size = 1}

InitContig == Make(1, 2)

ContigProducerStep(t) ==
  \/ LockStageIn(t)
  \/ GetBatchWait(t)
  \/ WaitWake(t)
  \/ NetEncode1(t)
  \/ NetEncode2(t)
  \/ FragEncode(t)
  \/ TransEncode1(t)
  \/ TransNotify(t)

NextContig ==
  \/ \E m \in ContigFragmented : PushNetStart(1, m)
  \/ \E m \in ContigNet : PushNetStart(2, m)
  \/ \E m \in ContigTrans : PushTransStart(2, m)
  \/ \E t \in Threads : ContigProducerStep(t)
  \/ FlowConsumerStep

SpecContig == InitContig /\ [][NextContig]_vars

\* The written batches of priority p that were placed in its ready ring or
\* its current_slot: those pull() returned, those of the ring, that of the
\* slot; each as its rank and what was written on it.
PlacedBatches(p) ==
  {[ord |-> obs[k].ord, items |-> obs[k].items] :
     k \in {j \in 1 .. Len(obs) : obs[j].p = p}}
    \cup {[ord |-> b.ord, items |-> b.items] : b \in BatchesAt(p)}

\* Batch b holds a fragment of message id.
HasFragment(b, id) ==
  \E k \in 1 .. Len(b.items) : b.items[k].k = "G" /\ b.items[k].id = id

\* C21: the fragments of one message are contiguous in their priority: a
\* batch placed in the ready ring or the current_slot of a priority between
\* the first and the last fragment batch of a message (these included)
\* holds bytes of that message only, whatever concurrent producers do.
C21_FragmentsContiguous ==
  \A p \in Prios : \A id \in 1 .. MaxMsgs :
    \A b1, b2, b3 \in PlacedBatches(p) :
      (/\ HasFragment(b1, id) /\ HasFragment(b3, id)
       /\ b1.ord <= b2.ord /\ b2.ord <= b3.ord)
        => IdsOf(b2) = {id}

\* A thread waits for the StageIn mutex of the priority at which another
\* thread, which holds it, has handed off a first fragment and not the last.
C21_Witness ==
  \E t, u \in Threads :
    /\ th[t].st = "nf" /\ th[t].frag >= 1 /\ th[t].ph \in {"get", "wait"}
    /\ th[u].ph = "lockin" /\ th[u].m.p = th[t].m.p
    /\ \E b \in PlacedBatches(th[t].m.p) : HasFragment(b, th[t].id)

\* pull() returns batch b of priority p in this step.
PullGives(p, b) ==
  /\ cs'.ph = "idle" /\ cs'.res = "some" /\ cs'.rp = p
  /\ obs' = Append(obs, [p |-> p, ord |-> b.ord, items |-> b.items])

\* try_pull of priority p gives no batch in this step and the scan goes on
\* with a backoff of bo.
PullGoesOn(bo) ==
  /\ cs'.ph \in {"ring", "wait"} /\ cs'.bo = bo
  /\ obs' = obs /\ ready' = ready /\ current' = current

\* C22: the outcome of try_pull. It returns the head of the ready ring
\* whenever the ring is not empty. Otherwise it returns Backoff(retry_time),
\* after backoff.next(), exactly when bytes_hint differs from the value the
\* deep pull saw last or the try-lock of current_slot fails; with the hint
\* unchanged and the lock taken it looks at the ready ring again and then
\* takes what the slot holds, returning the batch, or None for an empty
\* slot, and leaves the backoff alone.
C22_TryPullOutcome ==
  /\ [][LET p == ScanPrio(cs.i)
        IN (cs.ph = "ring" /\ cs' # cs /\ ready[p] # << >>) =>
             /\ PullGives(p, Head(ready[p]))
             /\ ready' = [ready EXCEPT ![p] = Tail(@)]
             /\ current' = current /\ retry' = retry]_vars
  /\ [][LET p == ScanPrio(cs.i)
            backs == bytes[p] # lastBytes[p] \/ curLock[p] # Free
        IN (cs.ph = "deep" /\ cs' # cs) =>
             /\ lastBytes' = [lastBytes EXCEPT ![p] = bytes[p]]
             /\ backs =>
                  /\ retry'[p] >= Tslot /\ retry'[p] >= retry[p]
                  /\ backoffFlag'[p]
                  /\ PullGoesOn(Min(cs.bo, retry'[p]))
             /\ ~backs =>
                  /\ retry' = retry /\ backoffFlag' = backoffFlag
                  /\ IF ready[p] # << >>
                     THEN /\ PullGives(p, Head(ready[p]))
                          /\ ready' = [ready EXCEPT ![p] = Tail(@)]
                          /\ current' = current
                     ELSE IF current[p] # << >>
                     THEN /\ PullGives(p, current[p][1])
                          /\ current' = [current EXCEPT ![p] = << >>]
                          /\ ready' = ready
                     ELSE PullGoesOn(cs.bo)]_vars

\* A pull() that backed off on a priority took, in a later scan, the batch
\* of that priority's current_slot.
C22_Witness ==
  /\ cs.ph = "idle" /\ cs.res = "some" /\ cs.from = "slot"
  /\ retry[cs.rp] > 0

\* 2^n, for n up to 16.
RECURSIVE Pow2(_)
Pow2(n) == IF n = 0 THEN 1 ELSE 2 * Pow2(n - 1)

\* Bit i (0 .. 31) of a 32 bit value, and bit i of that value times 2^s.
Bit(v, i) ==
  IF i < 16 THEN (v[2] \div Pow2(i)) % 2 ELSE (v[1] \div Pow2(i - 16)) % 2
ShiftedBit(v, s, i) == IF i >= s THEN Bit(v, i - s) ELSE 0

\* The 16 bit half made of bits base .. base + n - 1 of v * 2^s.
RECURSIVE HalfOfShifted(_, _, _, _)
HalfOfShifted(v, s, base, n) ==
  IF n = 0 THEN 0
  ELSE HalfOfShifted(v, s, base, n - 1)
         + ShiftedBit(v, s, base + n - 1) * Pow2(n - 1)

\* min(v * 2^s, 2^32 - 1): the product does not fit 32 bits when a set bit
\* of v is shifted to position 32 or beyond.
TimesPow2Saturated(v, s) ==
  IF \E i \in 0 .. 31 : Bit(v, i) = 1 /\ i + s >= 32
  THEN U32Max
  ELSE << HalfOfShifted(v, s, 16, 16), HalfOfShifted(v, s, 0, 16) >>

\* C23: backoff arithmetic. After reset() retry_time is 0 and backoff_flag
\* is false; after k >= 1 consecutive next() calls with tslot > 0,
\* retry_time is min(tslot * 2^(k-1), 2^32 - 1), never a wrapped value, and
\* backoff_flag is true from the first next() to the following reset().
C23_BackoffArithmetic ==
  /\ bk.last = "reset" => (bk.rt = U32Zero /\ ~bk.flag)
  /\ (bk.last = "next" /\ bk.tslot # U32Zero) =>
       /\ bk.k >= 1
       /\ bk.rt = TimesPow2Saturated(bk.tslot, bk.k - 1)
       /\ bk.flag

\* A Backoff made with the 1 us of the tests has saturated: the doubling
\* of its retry_time did not fit 32 bits.
C23_Witness ==
  /\ bk.last = "next" /\ bk.tslot = << 0, 1000 >>
  /\ bk.rt = U32Max /\ bk.flag

\* Thread t runs notify(bytes) in this step, and disable() its notify calls.
TransNotifies(t) == th[t].ph = "notify" /\ th'[t].ph = "idle"
DisableNotifies == dis.ph = "lock" /\ dis'.ph = "done"

\* A batch is pushed on the ready ring of priority p in this step.
MovesBatch(p) == Len(ready'[p]) > Len(ready[p])

\* C24: the signalling rule. notify stores its argument in bytes_hint and
\* attempts the ready signal only when the backoff_flag of the priority is
\* false, leaving the channel as it is otherwise, in push_transport_message
\* and in disable(); move_batch stores 0 in bytes_hint and attempts the
\* signal whatever the flag says, so that a notification is pending after
\* every move_batch.
C24_SignallingRule ==
  /\ [][\A t \in Threads :
          LET p == th[t].m.p
          IN TransNotifies(t) =>
               /\ bytes'[p] = th[t].nbytes
               /\ nOut' = IF backoffFlag[p] THEN nOut ELSE 1]_vars
  /\ [][DisableNotifies =>
          /\ \A p \in Prios : p < conf.np => bytes'[p] = BatchSizeMax
          /\ nOut' = IF \A p \in Prios : p < conf.np => backoffFlag[p]
                     THEN nOut ELSE 1]_vars
  /\ [][\A p \in Prios : MovesBatch(p) => (bytes'[p] = 0 /\ nOut' = 1)]_vars

\* The consumer is in its timed wait with no notification pending, its
\* backoff_flag set, and a push_transport_message has stored a bytes_hint
\* that the consumer has not seen: the wake-up signal was suppressed.
C24_Witness ==
  /\ cs.ph = "wait" /\ nOut = 0
  /\ \E t \in Threads :
       /\ th[t].ph = "idle" /\ th[t].how = "stored"
       /\ backoffFlag[0] /\ bytes[0] # lastBytes[0] /\ bytes[0] # BatchSizeMax

\* pull() returns None in this step.
PullReturnsNone == cs.ph # "idle" /\ cs'.ph = "idle" /\ cs'.res = "none"

\* C25: pull() returns None only when it reads the active flag false at the
\* loop test or when its wait finds the ready signal channel empty and
\* closed; while the pipeline is active and the channel open it returns a
\* batch or goes on waiting, whatever the scan found.
C25_NoneOnlyWhenInactiveOrClosed ==
  [][PullReturnsNone =>
       \/ cs.ph = "head" /\ ~active
       \/ cs.ph = "wait" /\ outClosed /\ nOut = 0]_vars

\* A pull() whose scan found every priority empty or in backoff is waiting,
\* the pipeline active and the channel open.
C25_Witness ==
  /\ cs.ph = "wait" /\ active /\ ~outClosed
  /\ \E p \in Prios : backoffFlag[p]
  /\ \E p \in Prios : p < conf.np /\ ~backoffFlag[p] /\ ready[p] = << >>

\* Who can hold a mutex: the producer threads, disable() and drain().
Agents == Threads \cup {DrainOwner, DisableOwner}

\* The thread that holds the mutex of the tx channel (p, r): the push of a
\* network message holds it from line 195 to its return; Free when none.
ChanOwner(p, r) ==
  IF \E t \in Threads :
       /\ th[t].op = "net" /\ th[t].ph \in {"get", "wait"}
       /\ th[t].st \in {"n2", "nf"}
       /\ th[t].m.p = p /\ Channel(th[t].m) = r
  THEN CHOOSE t \in Threads :
         /\ th[t].op = "net" /\ th[t].ph \in {"get", "wait"}
         /\ th[t].st \in {"n2", "nf"}
         /\ th[t].m.p = p /\ Channel(th[t].m) = r
  ELSE Free

\* The holder of the mutex agent a is blocked on, Free when a is not
\* blocked on a mutex: a thread in zlock!(stage_in), in self.mutex.current()
\* or in self.mutex.channel(); disable() and drain() at their next mutex.
Blocker(a) ==
  IF a \in Threads
  THEN LET s == th[a]
           p == s.m.p
       IN IF s.ph = "lockin" THEN inLock[p]
          ELSE IF s.ph = "get" /\ curLock[p] \notin {Free, a} THEN curLock[p]
          ELSE IF /\ s.ph = "get" /\ s.op = "net" /\ s.st = "n1"
                  /\ ChanOwner(p, Channel(s.m)) \notin {Free, a}
          THEN ChanOwner(p, Channel(s.m))
          ELSE Free
  ELSE IF a = DisableOwner
  THEN IF dis.ph = "lock" /\ dis.i < conf.np THEN inLock[dis.i] ELSE Free
  ELSE IF cs.ph = "drain" /\ cs.i < conf.np THEN curLock[cs.i] ELSE Free

\* The agent reached from a after k steps along the blocked-on relation.
RECURSIVE After(_, _)
After(a, k) == IF k = 0 \/ a = Free THEN a ELSE After(Blocker(a), k - 1)

CyclicWait ==
  \E a \in Agents : \E k \in 1 .. Cardinality(Agents) : After(a, k) = a

\* C26: deadlock freedom on the mutexes. No reachable state has a cyclic
\* wait among the StageIn, current_slot and tx channel mutexes; disable()
\* holds the StageIn mutexes of the priorities below its index and drain()
\* the current_slot mutexes below its index, each taken in index order; and
\* a producer blocked in the refill wait holds no current_slot mutex.
C26_NoMutexDeadlock ==
  /\ ~CyclicWait
  /\ \A p \in Prios :
       /\ inLock[p] = DisableOwner <=> (dis.ph = "lock" /\ p < dis.i)
       /\ curLock[p] = DrainOwner <=> (cs.ph = "drain" /\ p < cs.i)
  /\ \A t \in Threads : th[t].ph = "wait" => \A p \in Prios : curLock[p] # t

\* disable() waits for the StageIn mutex of a thread that waits for the
\* current_slot mutex drain() holds, while drain() waits for the
\* current_slot mutex of the next priority, held by the other thread.
C26_Witness ==
  \E t, u \in Threads :
    /\ Blocker(DisableOwner) = t
    /\ Blocker(t) = DrainOwner
    /\ Blocker(DrainOwner) = u

\* Thread t is blocked in the refill wait of a priority whose refill ring
\* holds a batch.
WaitsWithBatch(t) == th[t].ph = "wait" /\ refill[th[t].m.p] > 0

\* C27: no lost refill wake-up. Whenever a producer is in the refill wait
\* and a refill() of its priority has returned a batch to the ring, a
\* notification is pending for it, and its push goes on and returns; a
\* producer woken with nothing to take (a notification left from an earlier
\* refill) waits again.
C27_NoLostRefillWakeup ==
  /\ [](\A t \in Threads :
          (WaitsWithBatch(t) /\ cs.ph # "refill") => nRef[th[t].m.p] = 1)
  /\ \A t \in Threads :
       WaitsWithBatch(t) ~> (th[t].ph = "idle" /\ th[t].ret = "true")
  /\ [][\A t \in Threads :
          (th[t].ph = "get" /\ ~HasBatch(th[t].m.p) /\ th'[t] # th[t])
            => th'[t].ph = "wait"]_vars

\* A producer is in the refill wait, the refill ring empty, and the signal
\* channel holds the notification of an earlier refill whose batch has
\* been used.
C27_Witness ==
  \E t \in Threads :
    /\ th[t].ph = "wait" /\ refill[th[t].m.p] = 0 /\ nRef[th[t].m.p] = 1
    /\ cs.ph # "refill"

\* C28: whenever the backoff_flag of a priority is true, so that a notify
\* of that priority sends no wake-up, a consumer suspended in the wait of
\* pull() has a timeout of at most that priority's retry_time: it never
\* waits with a timeout that ignores a priority in backoff.
C28_BackoffCoveredByWait ==
  \A p \in Prios :
    (p < conf.np /\ backoffFlag[p] /\ cs.ph = "wait") => cs.bo <= retry[p]

\* C29: no ring ever overflows. With a consumer that refills only batches
\* it got from pull() or drain(), to the priority they came from, the
\* refill ring has room whenever the consumer holds a batch to refill (the
\* assertion of StageOutRefill::refill holds), and the ready ring has room
\* whenever the current_slot or the refill ring holds a batch a producer
\* can move (the push of move_batch does not fail, no batch is discarded).
C29_NoRingOverflow ==
  \A p \in Prios :
    p < conf.np =>
      /\ conf.qs <= RBLEN
      /\ held[p] > 0 => refill[p] < RBLEN
      /\ HasBatch(p) => Len(ready[p]) < RBLEN

\* The ready ring is full, a producer waits for a batch, and the consumer
\* holds none.
C29_Witness ==
  /\ Len(ready[0]) = RBLEN
  /\ held[0] = 0
  /\ \E t \in Threads : th[t].ph = "wait"

\* C30: every batch pull() returns and every batch drain() returns is
\* non-empty: no ready ring holds an empty batch, and no current_slot holds
\* one once the producer operation of its priority has returned.
C30_NoEmptyBatch ==
  /\ \A k \in 1 .. Len(obs) : obs[k].items # << >>
  /\ \A k \in 1 .. Len(cs.out) : ~IsEmpty(cs.out[k].b)
  /\ \A p \in Prios :
       /\ \A k \in 1 .. Len(ready[p]) : ~IsEmpty(ready[p][k])
       /\ (Quiescent(p) /\ current[p] # << >>) => ~IsEmpty(current[p][1])

\* ------------------------------------------- TransmissionPipeline::make (C31)
\* What make() is given: the queue sizes of the configuration, one for each
\* priority, the number of priorities of the slice (1 without QoS, all of
\* them with it), and the index of Priority::default().
MakeInputs ==
  [queue_size : [Prios -> 0 .. (RBLEN + 1)], priority : {1, MaxPrio},
   dflt : Prios]

\* Mutation of DefaultQueueSize: the size at index 0.
FirstQueueSize(c) == << c.queue_size[0] >>

\* default_queue_size (line 502).
DefaultQueueSize(c) == << c.queue_size[c.dflt] >>

\* size_iter (lines 503-507), as the sequence it runs through.
SizeIter(c) ==
  IF c.priority = 1
  THEN DefaultQueueSize(c)
  ELSE [k \in 1 .. MaxPrio |-> c.queue_size[k - 1]]

\* The assertion of line 514.
SizeAsserted(num) == num # 0 /\ num <= RBLEN

\* Lines 520-523: num batches are pushed one after the other on a refill
\* ring that holds n; << >> when a push is refused (the assertion of line
\* 522 fails), else the number of batches of the ring.
RECURSIVE FillRefill(_, _)
FillRefill(n, num) ==
  IF num = 0 THEN << n >>
  ELSE IF n < RBLEN THEN FillRefill(n + 1, num - 1)
  ELSE << >>

\* The loop of lines 513-561 from the k-th size on: << >> when an assertion
\* fails, else the refill rings built, one for each size.
RECURSIVE MakeStages(_, _)
MakeStages(sizes, k) ==
  IF k > Len(sizes) THEN << << >> >>
  ELSE IF ~SizeAsserted(sizes[k]) THEN << >>
  ELSE LET ring == FillRefill(0, sizes[k])
           rest == MakeStages(sizes, k + 1)
       IN IF ring = << >> \/ rest = << >> THEN << >>
          ELSE << << ring[1] >> \o rest[1] >>

\* Before make(): its arguments are chosen, and there is no pipeline.
InitMake ==
  /\ conf \in {[np |-> 0, made |-> "no", getAdvances |-> a,
                queue_size |-> i.queue_size, priority |-> i.priority,
                dflt |-> i.dflt] : a \in BOOLEAN, i \in MakeInputs}
  /\ refill = [p \in Prios |-> 0]
  /\ ready = [p \in Prios |-> << >>]
  /\ current = [p \in Prios |-> << >>]
  /\ curLock = [p \in Prios |-> Free]
  /\ inLock = [p \in Prios |-> Free]
  /\ bytes = [p \in Prios |-> 0]
  /\ backoffFlag = [p \in Prios |-> FALSE]
  /\ nRef = [p \in Prios |-> 0]
  /\ refClosed = FALSE
  /\ nOut = 0
  /\ outClosed = FALSE
  /\ active = FALSE
  /\ chan = [p \in Prios |-> [r \in BOOLEAN |-> 0]]
  /\ th = [t \in Threads |-> IdleThread]
  /\ cs = IdleConsumer
  /\ retry = [p \in Prios |-> 0]
  /\ lastBytes = [p \in Prios |-> 0]
  /\ held = [p \in Prios |-> 0]
  /\ dis = [ph |-> "idle", i |-> 0]
  /\ nextId = 0
  /\ fillCtr = [p \in Prios |-> 0]
  /\ visible = {}
  /\ obs = << >>
  /\ bk = NoBackoff

\* TransmissionPipeline::make (lines 495-574): it panics when an assertion
\* of the loop fails, and else returns a producer and a consumer of one
\* stage for each size of size_iter.
MakeCall ==
  /\ conf.made = "no"
  /\ LET stages == MakeStages(SizeIter(conf), 1)
     IN IF stages = << >>
        THEN /\ conf' = [conf EXCEPT !.made = "panic"]
             /\ UNCHANGED << refill, ready, current, bytes, backoffFlag,
                             retry, lastBytes, active >>
        ELSE /\ conf' = [conf EXCEPT !.made = "ok", !.np = Len(stages[1])]
             /\ refill' = [p \in Prios |-> IF p < Len(stages[1])
                                            THEN stages[1][p + 1] ELSE 0]
             /\ ready' = [p \in Prios |-> << >>]
             /\ current' = [p \in Prios |-> << >>]
             /\ bytes' = [p \in Prios |-> 0]
             /\ backoffFlag' = [p \in Prios |-> FALSE]
             /\ retry' = [p \in Prios |-> 0]
             /\ lastBytes' = [p \in Prios |-> 0]
             /\ active' = TRUE
  /\ UNCHANGED << curLock, inLock, nRef, refClosed, nOut, outClosed, chan,
                  th, cs, held, dis, nextId, fillCtr, visible, obs, bk >>

\* Reliable frames of one byte, of every priority.
MakeNet ==
  {m \in NetMsgs : m.rel /\ ~m.drop /\ m.size = 1 /\ m.failAt = 0}

\* make(), then one producer thread uses what it returned.
NextMake ==
  \/ MakeCall
  \/ conf.made = "ok" /\ \E m \in MakeNet : PushNetStart(1, m)
  \/ conf.made = "ok" /\ GetBatchWait(1)
  \/ conf.made = "ok" /\ NetEncode1(1)

SpecMake == InitMake /\ [][NextMake]_vars

\* C31: make() panics when a queue of the pipeline would get a size of 0 or
\* above RBLEN, and otherwise returns an active pipeline of one queue sized
\* by the default priority's queue size when a single priority is given,
\* and of one queue for each priority, sized by its own queue size,
\* otherwise; each queue has its refill ring holding that many batches, an
\* empty ready ring, an empty current_slot, bytes_hint 0, backoff_flag
\* false and retry_time 0.
C31_MakeInitialState ==
  [][(conf.made = "no" /\ conf'.made # "no") =>
       LET n == IF conf.priority = 1 THEN 1 ELSE MaxPrio
           size(p) == IF conf.priority = 1 THEN conf.queue_size[conf.dflt]
                      ELSE conf.queue_size[p]
       IN IF \E p \in 0 .. (n - 1) : size(p) = 0 \/ size(p) > RBLEN
          THEN conf'.made = "panic"
          ELSE /\ conf'.made = "ok"
               /\ conf'.np = n
               /\ active'
               /\ \A p \in 0 .. (n - 1) :
                    /\ refill'[p] = size(p)
                    /\ ready'[p] = << >>
                    /\ current'[p] = << >>
                    /\ bytes'[p] = 0
                    /\ ~backoffFlag'[p]
                    /\ retry'[p] = 0]_vars

\* make() has returned a pipeline of a single priority whose queue has the
\* default priority's size, which is not the size of index 0, and nothing
\* has used the pipeline yet.
C31_Witness ==
  /\ conf.made = "ok"
  /\ conf.priority = 1
  /\ conf.np = 1
  /\ conf.queue_size[0] # conf.queue_size[conf.dflt]
  /\ refill[0] = conf.queue_size[conf.dflt]
  /\ nextId = 0

====
